---- MODULE Spec2Model ----
(***************************************************************************)
(* coinai-analytics: the market-data proxy (Next.js route handlers under   *)
(* /api/bitget), the upstream exchange they call, and the client data      *)
(* service (BitgetApiService) that calls the proxy.                        *)
(*                                                                         *)
(* Text is a sequence of one-character strings.  A JavaScript number that  *)
(* is an integer is held as its canonical decimal numeral (the text that   *)
(* Number.prototype.toString gives), because the millisecond timestamps    *)
(* and the 9999999999 threshold of the code do not fit TLC's integers.     *)
(***************************************************************************)
EXTENDS Integers, Sequences, FiniteSets, TLC

\* ------------------------------------------------------------------------
\* Bounds of the model
\* ------------------------------------------------------------------------
MaxCandles == 3

\* ------------------------------------------------------------------------
\* Text and numbers
\* ------------------------------------------------------------------------
DigitChars == <<"0", "1", "2", "3", "4", "5", "6", "7", "8", "9">>

IsDigit(c) == \E i \in 1..10 : DigitChars[i] = c

DigitValue(c) == CHOOSE d \in 0..9 : DigitChars[d + 1] = c

NaN == <<"N", "a", "N">>

\* Number.prototype.toString of a small integer
RECURSIVE Str(_)
Str(n) ==
  IF n < 0 THEN <<"-">> \o Str(-n)
  ELSE IF n < 10 THEN <<DigitChars[n + 1]>>
  ELSE Str(n \div 10) \o <<DigitChars[(n % 10) + 1]>>

RECURSIVE DigitPrefix(_)
DigitPrefix(s) ==
  IF s = <<>> \/ ~IsDigit(Head(s)) THEN <<>>
  ELSE <<Head(s)>> \o DigitPrefix(Tail(s))

RECURSIVE StripZeros(_)
StripZeros(d) ==
  IF Len(d) > 1 /\ Head(d) = "0" THEN StripZeros(Tail(d)) ELSE d

\* parseInt(s): optional sign, then the longest prefix of decimal digits;
\* NaN when there is no digit.  The result is the canonical numeral.
parseInt(s) ==
  LET signed == s # <<>> /\ Head(s) \in {"-", "+"}
      neg    == s # <<>> /\ Head(s) = "-"
      d      == StripZeros(DigitPrefix(IF signed THEN Tail(s) ELSE s))
  IN  IF d = <<>> THEN NaN
      ELSE IF neg /\ d # <<"0">> THEN <<"-">> \o d
      ELSE d

IsNegative(a) == a # <<>> /\ Head(a) = "-"

RECURSIVE DigitsLess(_, _)
DigitsLess(a, b) ==
  IF a = <<>> THEN FALSE
  ELSE IF Head(a) # Head(b) THEN DigitValue(Head(a)) < DigitValue(Head(b))
  ELSE DigitsLess(Tail(a), Tail(b))

MagnitudeLess(a, b) ==
  Len(a) < Len(b) \/ (Len(a) = Len(b) /\ DigitsLess(a, b))

\* a < b on numbers; false when either is NaN
NumLess(a, b) ==
  /\ a # NaN
  /\ b # NaN
  /\ IF IsNegative(a)
       THEN IF IsNegative(b) THEN MagnitudeLess(Tail(b), Tail(a)) ELSE TRUE
       ELSE IF IsNegative(b) THEN FALSE ELSE MagnitudeLess(a, b)

\* Math.min(a, b)
MathMin(a, b) ==
  IF a = NaN \/ b = NaN THEN NaN
  ELSE IF NumLess(b, a) THEN b ELSE a

\* Math.floor(a / 1000) for a >= 0
FloorDiv1000(a) ==
  IF Len(a) <= 3 THEN <<"0">> ELSE SubSeq(a, 1, Len(a) - 3)

RECURSIVE Zeros(_)
Zeros(n) == IF n <= 0 THEN <<>> ELSE <<"0">> \o Zeros(n - 1)

RECURSIVE SubDigits(_, _, _, _)
SubDigits(a, b, i, borrow) ==
  IF i = 0 THEN <<>>
  ELSE LET d == DigitValue(a[i]) - DigitValue(b[i]) - borrow
       IN  SubDigits(a, b, i - 1, IF d < 0 THEN 1 ELSE 0)
             \o <<DigitChars[(IF d < 0 THEN d + 10 ELSE d) + 1]>>

\* a - b for numbers a >= b >= 0
NumSub(a, b) ==
  StripZeros(SubDigits(a, Zeros(Len(a) - Len(b)) \o b, Len(a), 0))

RECURSIVE DigitsValue(_, _)
DigitsValue(d, acc) ==
  IF d = <<>> THEN acc
  ELSE DigitsValue(Tail(d), acc * 10 + DigitValue(Head(d)))

\* parseFloat(s) of a decimal text with at most two fraction digits; the
\* number is held in hundredths
parseFloat(s) ==
  LET ip   == DigitPrefix(s)
      rest == SubSeq(s, Len(ip) + 1, Len(s))
      fp   == IF rest # <<>> /\ Head(rest) = "." THEN DigitPrefix(Tail(rest))
              ELSE <<>>
  IN  DigitsValue(ip, 0) * 100
        + DigitsValue(SubSeq(fp \o <<"0", "0">>, 1, 2), 0)

Min(a, b) == IF b < a THEN b ELSE a

\* ------------------------------------------------------------------------
\* State
\* ------------------------------------------------------------------------
VARIABLES
  request,      \* proxy: the HTTP request being handled [route, query, origin]
  pc,           \* proxy: "idle", "fetch", "backoff", "hung" or "done"
  endpointIdx,  \* proxy: index of the candidate endpoint being tried
  attempt,      \* proxy: loop counter i of fetchWithRetry
  upstream,     \* the upstream requests of this handler call, with replies
  waits,        \* the backoff delays (ms) slept by this handler call
  response,     \* proxy: the HTTP response of the handler
  call,         \* client service: the call in progress and its arguments
  sent,         \* client service: the proxy requests of this call
  answers,      \* client service: the candle rows read from each answer
  result,       \* client service: what the call returned or threw
  download,     \* the text exportToCSV or exportToJSON made of the result
  mounted,      \* Dashboard: "no", "yes" or "gone" (unmounted)
  selectedSymbol, marketType, timeRange, autoRefreshOrderbook,
  orderbook, orderbookLoading, orderbookError,
  historicalData, summary, chartData, loading, error,
  interval,     \* Dashboard: the interval the auto-refresh effect holds
  timers,       \* the browser: the intervals that are set
  pending,      \* the service calls of the Dashboard that are in flight
  settled,      \* ... and the number of those that have completed
  arrived,      \* the successful answers in order of arrival, per kind
  issued        \* the number of service calls the Dashboard has made

proxyVars == <<request, pc, endpointIdx, attempt, upstream, waits, response>>
clientVars == <<call, sent, answers, result, download>>
controlVars == <<selectedSymbol, marketType, timeRange, autoRefreshOrderbook>>
orderbookVars == <<orderbook, orderbookLoading, orderbookError>>
historyVars == <<historicalData, summary, chartData, loading, error>>
dashboardVars == <<mounted, controlVars, orderbookVars, historyVars, interval, timers, pending, settled, arrived, issued>>
vars == <<proxyVars, clientVars, dashboardVars>>

\* ------------------------------------------------------------------------
\* Routes of the proxy and their upstream endpoints
\* ------------------------------------------------------------------------
SpotSymbols      == "/api/bitget/symbols"
SpotSymbolsPlain == "/api/bitget/symbols (single-endpoint revision)"
SpotTickers      == "/api/bitget/tickers"
SpotTicker       == "/api/bitget/ticker"
SpotCandles      == "/api/bitget/candles"
SpotOrderbook    == "/api/bitget/orderbook"
FuturesSymbols   == "/api/bitget/futures/symbols"
FuturesTickers   == "/api/bitget/futures/tickers"
FuturesTicker    == "/api/bitget/futures/ticker"
FuturesCandles   == "/api/bitget/futures/candles"
FuturesOrderbook == "/api/bitget/futures/orderbook"

\* handlers that loop over two candidate endpoints through fetchWithRetry
RetryRoutes == {SpotSymbols, FuturesSymbols, FuturesTickers}

\* handlers that make one upstream call and answer 500 when it fails
SingleRoutes ==
  {SpotSymbolsPlain, SpotTickers, SpotTicker, SpotCandles,
   FuturesTicker, FuturesCandles, FuturesOrderbook}

Routes == RetryRoutes \cup {SpotOrderbook} \cup SingleRoutes

\* handlers that read the symbol query parameter
SymbolRoutes ==
  {SpotTicker, SpotCandles, SpotOrderbook,
   FuturesTicker, FuturesCandles, FuturesOrderbook}

CandleRoutes == {SpotCandles, FuturesCandles}

\* handlers that end in a hard-coded mock payload
MockRoutes == RetryRoutes \cup {SpotOrderbook}

\* handlers whose fetch carries an AbortController signal
TimeoutRoutes == Routes \ {SpotTickers, SpotTicker}

Endpoints(route) ==
  CASE route = SpotSymbols ->
         <<"https://api.bitget.com/api/v2/spot/public/symbols",
           "https://api.bitget.com/api/spot/v1/public/products">>
    [] route = FuturesSymbols ->
         <<"https://api.bitget.com/api/v2/mix/market/contracts?productType=USDT-FUTURES",
           "https://api.bitget.com/api/mix/v1/market/contracts?productType=umcbl">>
    [] route = FuturesTickers ->
         <<"https://api.bitget.com/api/v2/mix/market/tickers?productType=USDT-FUTURES",
           "https://api.bitget.com/api/mix/v1/market/tickers?productType=umcbl">>
    [] route = SpotOrderbook ->
         <<"https://api.bitget.com/api/v2/spot/market/orderbook",
           "https://api.bitget.com/api/spot/v1/market/depth">>
    [] route = SpotSymbolsPlain ->
         <<"https://api.bitget.com/api/v2/spot/public/symbols">>
    [] route = SpotTickers ->
         <<"https://api.bitget.com/api/v2/spot/market/tickers">>
    [] route = SpotTicker ->
         <<"https://api.bitget.com/api/v2/spot/market/tickers">>
    [] route = SpotCandles ->
         <<"https://api.bitget.com/api/v2/spot/market/candles">>
    [] route = FuturesTicker ->
         <<"https://api.bitget.com/api/v2/mix/market/ticker">>
    [] route = FuturesCandles ->
         <<"https://api.bitget.com/api/v2/mix/market/candles">>
    [] route = FuturesOrderbook ->
         <<"https://api.bitget.com/api/v2/mix/market/orderbook">>

\* endpoint.includes('v1')
IncludesV1(url) ==
  url \in {"https://api.bitget.com/api/spot/v1/public/products",
           "https://api.bitget.com/api/mix/v1/market/contracts?productType=umcbl",
           "https://api.bitget.com/api/mix/v1/market/tickers?productType=umcbl",
           "https://api.bitget.com/api/spot/v1/market/depth"}

\* ------------------------------------------------------------------------
\* Granularity mappers
\* ------------------------------------------------------------------------
\* Property names every object literal inherits from Object.prototype: the
\* lookup granularityMap[key] finds them, and their values are truthy.
ObjectPrototypeKeys ==
  {"constructor", "toString", "valueOf", "hasOwnProperty", "__proto__"}

\* String(Object.prototype[key]), the text such a value becomes in a URL
InheritedText(key) ==
  IF key = "__proto__" THEN "[object Object]"
  ELSE "function " \o (IF key = "constructor" THEN "Object" ELSE key)
         \o "() { [native code] }"

SpotGranularityMap ==
  ("1min" :> "1min") @@ ("5min" :> "5min") @@ ("15min" :> "15min") @@
  ("1h" :> "1h") @@ ("4h" :> "4h") @@ ("1day" :> "1day") @@
  ("1week" :> "1week") @@ ("1month" :> "1M")

FuturesGranularityMap ==
  ("1min" :> "1m") @@ ("5min" :> "5m") @@ ("15min" :> "15m") @@
  ("1h" :> "1H") @@ ("4h" :> "4H") @@ ("1day" :> "1D") @@
  ("1week" :> "1W") @@ ("1month" :> "1M")

\* granularityMap[granularity] || fallback
LookupOr(map, key, fallback) ==
  IF key \in DOMAIN map THEN map[key]
  ELSE IF key \in ObjectPrototypeKeys THEN InheritedText(key)
  ELSE fallback

\* mapGranularity of the spot candles route
mapGranularitySpot(granularity) ==
  LookupOr(SpotGranularityMap, granularity, granularity)

\* mapGranularity of the futures candles route
mapGranularityFutures(granularity) ==
  LookupOr(FuturesGranularityMap, granularity, "1D")

\* ------------------------------------------------------------------------
\* Query parameters
\* ------------------------------------------------------------------------
\* A query is a function from parameter names to values; searchParams.get
\* of a name outside its domain is null.  symbol and granularity are
\* strings, startTime, endTime and limit are texts.
HasParam(q, k) == k \in DOMAIN q

\* symbol === null
SymbolMissingMutant(q) == ~HasParam(q, "symbol")

\* !symbol
SymbolMissing(q) == ~HasParam(q, "symbol") \/ q["symbol"] = ""

\* searchParams.get(k) is a non-empty text
TextGiven(q, k) == HasParam(q, k) /\ q[k] # <<>>

\* searchParams.get('granularity') || '1D'
GranularityOf(q) ==
  IF HasParam(q, "granularity") /\ q["granularity"] # ""
    THEN q["granularity"] ELSE "1D"

\* searchParams.get('limit') || default
LimitOf(q, default) == IF TextGiven(q, "limit") THEN q["limit"] ELSE default

SpotCandlesMaxLimit      == 1000
FuturesCandlesMaxLimit   == 1000
SpotOrderbookMaxLimit    == 500
FuturesOrderbookMaxLimit == 100

SpotCandlesDefaultLimit      == 200
FuturesCandlesDefaultLimit   == 200
SpotOrderbookDefaultLimit    == 100
FuturesOrderbookDefaultLimit == 20

\* parseInt(limit).toString(), the clamp forgotten
ClampLimitMutant(limit, max) == parseInt(limit)

\* Math.min(parseInt(limit), max).toString()
ClampLimit(limit, max) == MathMin(parseInt(limit), Str(max))

MsThreshold == <<"9", "9", "9", "9", "9", "9", "9", "9", "9", "9">>

\* n >= 9999999999 ? Math.floor(n / 1000) : n
ToSecondsMutant(n) ==
  IF NumLess(MsThreshold, n) \/ n = MsThreshold THEN FloorDiv1000(n) ELSE n

\* n > 9999999999 ? Math.floor(n / 1000) : n
ToSeconds(n) == IF NumLess(MsThreshold, n) THEN FloorDiv1000(n) ELSE n

\* if (startTime) params.append('startTime', ...); the same for endTime
TimeParams(q) ==
  (IF TextGiven(q, "startTime")
     THEN "startTime" :> ToSeconds(parseInt(q["startTime"])) ELSE <<>>)
  @@
  (IF TextGiven(q, "endTime")
     THEN "endTime" :> ToSeconds(parseInt(q["endTime"])) ELSE <<>>)

\* the URLSearchParams each handler sends upstream
UpstreamParams(route, q) ==
  CASE route = SpotCandles ->
         ("symbol" :> q["symbol"]) @@
         ("granularity" :> mapGranularitySpot(GranularityOf(q))) @@
         ("limit" :> ClampLimit(LimitOf(q, Str(SpotCandlesDefaultLimit)),
                                SpotCandlesMaxLimit)) @@
         TimeParams(q)
    [] route = FuturesCandles ->
         ("symbol" :> q["symbol"]) @@
         ("granularity" :> mapGranularityFutures(GranularityOf(q))) @@
         ("productType" :> "usdt-futures") @@
         ("limit" :> ClampLimit(LimitOf(q, Str(FuturesCandlesDefaultLimit)),
                                FuturesCandlesMaxLimit)) @@
         TimeParams(q)
    [] route = SpotOrderbook ->
         ("symbol" :> q["symbol"]) @@
         ("limit" :> ClampLimit(LimitOf(q, Str(SpotOrderbookDefaultLimit)),
                                SpotOrderbookMaxLimit))
    [] route = FuturesOrderbook ->
         ("symbol" :> q["symbol"]) @@
         ("productType" :> "usdt-futures") @@
         ("limit" :> ClampLimit(LimitOf(q, Str(FuturesOrderbookDefaultLimit)),
                                FuturesOrderbookMaxLimit))
    [] route = FuturesTicker -> ("symbol" :> q["symbol"])
    [] OTHER -> <<>>

\* ------------------------------------------------------------------------
\* JSON bodies
\* ------------------------------------------------------------------------
\* Every body is a record with a shape: "none" (no body), "invalid" (text
\* that response.json() rejects), "envelope" ({code, msg, data?}) or
\* "list" (a bare array).
NoBody      == [shape |-> "none"]
InvalidJson == [shape |-> "invalid"]

Envelope(code, msg, data) ==
  [shape |-> "envelope", code |-> code, msg |-> msg, data |-> data]

\* an upstream answer that reports an application error and carries no data
ErrorEnvelope ==
  [shape |-> "envelope", code |-> "40034", msg |-> "Parameter does not exist"]

BareList(items) == [shape |-> "list", items |-> items]

ErrorBody(message) == [shape |-> "error", error |-> message]

SpotSymbolItem(symbol, base) ==
  [symbol |-> symbol, baseCoin |-> base, quoteCoin |-> "USDT",
   status |-> "online"]

FuturesSymbolItem(symbol, base, minNum, endStep, volPlace, pricePlace) ==
  [symbol |-> symbol, baseCoin |-> base, quoteCoin |-> "USDT",
   status |-> "normal", contractType |-> "perpetual",
   minTradeNum |-> minNum, priceEndStep |-> endStep,
   volumePlace |-> volPlace, pricePlace |-> pricePlace]

\* the hard-coded payloads of the mock tier
MockSpotSymbols ==
  <<SpotSymbolItem("BTCUSDT", "BTC"), SpotSymbolItem("ETHUSDT", "ETH"),
    SpotSymbolItem("ADAUSDT", "ADA"), SpotSymbolItem("DOTUSDT", "DOT"),
    SpotSymbolItem("LINKUSDT", "LINK"), SpotSymbolItem("SOLUSDT", "SOL"),
    SpotSymbolItem("MATICUSDT", "MATIC"), SpotSymbolItem("AVAXUSDT", "AVAX"),
    SpotSymbolItem("ATOMUSDT", "ATOM"), SpotSymbolItem("NEARUSDT", "NEAR")>>

MockFuturesSymbols ==
  <<FuturesSymbolItem("BTCUSDT", "BTC", "0.001", "0.1", "3", "1"),
    FuturesSymbolItem("ETHUSDT", "ETH", "0.01", "0.01", "2", "2"),
    FuturesSymbolItem("ADAUSDT", "ADA", "1", "0.0001", "0", "4"),
    FuturesSymbolItem("SOLUSDT", "SOL", "0.1", "0.001", "1", "3"),
    FuturesSymbolItem("MATICUSDT", "MATIC", "1", "0.0001", "0", "4")>>

MockFuturesTickers ==
  <<[symbol |-> "BTCUSDT", lastPr |-> "45000.00", high24h |-> "46000.00",
     low24h |-> "44000.00", change24h |-> "1000.00",
     changeUtc24h |-> "2.27", baseVol |-> "1234.567",
     quoteVol |-> "55555555.00", usdtVol |-> "55555555.00",
     ts |-> "Date.now()", buyOne |-> "44999.50", sellOne |-> "45000.50",
     bidSz |-> "0.123", askSz |-> "0.456", openUtc |-> "44000.00"],
    [symbol |-> "ETHUSDT", lastPr |-> "3200.00", high24h |-> "3300.00",
     low24h |-> "3100.00", change24h |-> "100.00",
     changeUtc24h |-> "3.23", baseVol |-> "2345.678",
     quoteVol |-> "7500000.00", usdtVol |-> "7500000.00",
     ts |-> "Date.now()", buyOne |-> "3199.50", sellOne |-> "3200.50",
     bidSz |-> "1.234", askSz |-> "2.345", openUtc |-> "3100.00"]>>

MockOrderbook ==
  [asks |-> <<<<"50000.00", "0.1">>, <<"50100.00", "0.2">>,
              <<"50200.00", "0.15">>>>,
   bids |-> <<<<"49900.00", "0.1">>, <<"49800.00", "0.2">>,
              <<"49700.00", "0.15">>>>,
   ts |-> "1700000100123"]

MockPayload(route) ==
  Envelope("00000", "success (mock data)",
           CASE route = SpotSymbols    -> MockSpotSymbols
             [] route = FuturesSymbols -> MockFuturesSymbols
             [] route = FuturesTickers -> MockFuturesTickers
             [] route = SpotOrderbook  -> MockOrderbook)

\* ------------------------------------------------------------------------
\* The upstream exchange
\* ------------------------------------------------------------------------
\* items of the upstream symbol lists, per API generation
UpstreamSpotSymbolsV2 == <<SpotSymbolItem("BTCUSDT", "BTC")>>

UpstreamSpotProductsV1 ==
  <<[symbol |-> "BTCUSDT_SPBL", symbolName |-> "BTCUSDT", baseCoin |-> "BTC",
     quoteCoin |-> "USDT", status |-> "online"]>>

UpstreamFuturesContractsV2 ==
  <<[symbol |-> "BTCUSDT", baseCoin |-> "BTC", quoteCoin |-> "USDT",
     symbolStatus |-> "normal", symbolType |-> "perpetual",
     minTradeNum |-> "0.001", priceEndStep |-> "1", volumePlace |-> "3",
     pricePlace |-> "1"]>>

UpstreamFuturesContractsV1 ==
  <<[symbol |-> "BTCUSDT_UMCBL", baseCoin |-> "BTC", quoteCoin |-> "USDT",
     symbolStatus |-> "normal", symbolType |-> "perpetual",
     minTradeNum |-> "0.001", priceEndStep |-> "1", volumePlace |-> "3",
     pricePlace |-> "1"]>>

UpstreamTickers ==
  <<[symbol |-> "BTCUSDT", lastPr |-> "45010.5"],
    [symbol |-> "ETHUSDT", lastPr |-> "3201.1"]>>

UpstreamOrderbook ==
  [asks |-> <<<<"45011.0", "0.5">>>>, bids |-> <<<<"45010.0", "0.7">>>>,
   ts |-> "1700000000123"]

\* the book of a market that stands at 50000 at the instant 1700000100123
UpstreamOrderbookAt50000 ==
  [asks |-> <<<<"50000.00", "0.1">>, <<"50100.00", "0.2">>,
              <<"50200.00", "0.15">>>>,
   bids |-> <<<<"49900.00", "0.1">>, <<"49800.00", "0.2">>,
              <<"49700.00", "0.15">>>>,
   ts |-> "1700000100123"]

\* The candle rows of an answer are drawn when the client service reads
\* them: the candle routes forward the upstream body untouched.
CandleRows == "candle rows"

\* the JSON documents an endpoint can answer a 2xx with
UpstreamBodies(route, idx) ==
  {InvalidJson, ErrorEnvelope} \cup
  CASE route \in {SpotSymbols, SpotSymbolsPlain} ->
         IF idx = 1
           THEN {Envelope("00000", "success", UpstreamSpotSymbolsV2)}
           ELSE {Envelope("00000", "success", UpstreamSpotProductsV1),
                 BareList(UpstreamSpotProductsV1)}
    [] route = FuturesSymbols ->
         IF idx = 1
           THEN {Envelope("00000", "success", UpstreamFuturesContractsV2)}
           ELSE {Envelope("00000", "success", UpstreamFuturesContractsV1),
                 BareList(UpstreamFuturesContractsV1)}
    [] route \in {FuturesTickers, SpotTickers, SpotTicker, FuturesTicker} ->
         {Envelope("00000", "success", UpstreamTickers),
          BareList(UpstreamTickers)}
    [] route \in {SpotOrderbook, FuturesOrderbook} ->
         {Envelope("00000", "success", UpstreamOrderbook),
          Envelope("00000", "success", UpstreamOrderbookAt50000)}
    [] route \in CandleRoutes ->
         {Envelope("00000", "success", CandleRows)}

\* The outcomes of one fetch: it throws (network error), it is aborted by
\* the handler's timeout, or it resolves with a non-2xx or a 2xx response.
Replies(route, idx) ==
  {[kind |-> "throw", body |-> NoBody],
   [kind |-> "non2xx", body |-> NoBody]}
  \cup (IF route \in TimeoutRoutes
          THEN {[kind |-> "timeout", body |-> NoBody]} ELSE {})
  \cup {[kind |-> "2xx", body |-> b] : b \in UpstreamBodies(route, idx)}

Pending == [kind |-> "pending", body |-> NoBody]

\* ------------------------------------------------------------------------
\* Responses of the proxy
\* ------------------------------------------------------------------------
Cors == "Access-Control-Allow-Origin: *"
MockTag == "X-Data-Source: mock"

\* source records where the body was built from: "upstream", "mock" or
\* "error"; json is the body itself
Json(status, headers, source, json) ==
  [status |-> status, headers |-> headers, source |-> source, json |-> json]

NoResponse == Json(0, {}, "", NoBody)
NoRequest == [route |-> "", query |-> <<>>, origin |-> ""]

\* NextResponse.json({ error: 'Symbol parameter is required' }, { status: 400 })
BadRequest == Json(400, {}, "error", ErrorBody("Symbol parameter is required"))

FailureMessage(route) ==
  CASE route = SpotCandles      -> "Failed to fetch historical data"
    [] route = FuturesCandles   -> "Failed to fetch futures historical data"
    [] route = SpotTicker       -> "Failed to fetch ticker"
    [] route = FuturesTicker    -> "Failed to fetch futures ticker data"
    [] route = FuturesOrderbook -> "Failed to fetch futures orderbook data"
    [] route = SpotTickers      -> "Failed to fetch tickers"
    [] route = SpotSymbolsPlain -> "Failed to fetch symbols"

\* the catch block without { status: 500 }
ServerErrorMutant(route) ==
  Json(200, {}, "error", ErrorBody(FailureMessage(route)))

\* the catch block of a single-endpoint handler
ServerError(route) == Json(500, {}, "error", ErrorBody(FailureMessage(route)))

\* the headers of a response built from an upstream answer
LiveHeaders(route) ==
  CASE route \in {SpotSymbols, FuturesSymbols} ->
         {Cors, "Cache-Control: public, max-age=300"}
    [] route = FuturesTickers -> {Cors, "Cache-Control: public, max-age=60"}
    [] route = SpotOrderbook ->
         {"Cache-Control: public, s-maxage=1, stale-while-revalidate=5"}
    [] OTHER -> {Cors}

\* the mock answer without its tag
MockHeadersMutant(route) == {Cors}

\* the headers of the response built from the mock payload
MockHeaders(route) ==
  IF route = SpotOrderbook
    THEN {"Cache-Control: public, s-maxage=1, stale-while-revalidate=5",
          MockTag}
    ELSE {Cors, MockTag}

\* the mock tier replaced by an error answer
MockResponseMutant(route) ==
  Json(500, {}, "error", ErrorBody("Failed to fetch symbols"))

MockResponse(route) ==
  Json(200, MockHeaders(route), "mock", MockPayload(route))

\* data.data?.map(item => ({...})) || [] of the futures symbols route
MapContract(item) ==
  [symbol |-> item.symbol, baseCoin |-> item.baseCoin,
   quoteCoin |-> item.quoteCoin, status |-> item.symbolStatus,
   contractType |-> item.symbolType, minTradeNum |-> item.minTradeNum,
   priceEndStep |-> item.priceEndStep, volumePlace |-> item.volumePlace,
   pricePlace |-> item.pricePlace]

MappedContracts(body) ==
  IF body.shape = "envelope" /\ "data" \in DOMAIN body
    THEN [i \in 1..Len(body.data) |-> MapContract(body.data[i])]
    ELSE <<>>

\* normalizedData of the handlers that go through fetchWithRetry
Normalize(route, url, body) ==
  IF IncludesV1(url) THEN Envelope("00000", "success", body)
  ELSE IF route = FuturesSymbols
    THEN Envelope(IF body.shape = "envelope" THEN body.code ELSE "00000",
                  IF body.shape = "envelope" THEN body.msg ELSE "success",
                  MappedContracts(body))
  ELSE body

LiveResponse(route, json) == Json(200, LiveHeaders(route), "upstream", json)

\* ------------------------------------------------------------------------
\* Requests a caller can send to the proxy
\* ------------------------------------------------------------------------
Symbols == {"BTCUSDT", "DOGEUSDT"}

GranularityTokens ==
  {"1min", "5min", "15min", "1h", "4h", "1day", "1week", "1month"}

GranularityInputs == GranularityTokens \cup {"", "1M", "constructor"}

CandleLimitInputs ==
  {<<>>, Str(0), Str(999), Str(1000), Str(1001), Str(5000)}

DepthLimitInputs ==
  {<<>>, Str(0), Str(100), Str(101), Str(500), Str(501), Str(5000)}

\* 9999999999, 10000000000 and a millisecond timestamp of 2023
TenNines   == Str(99999) \o Str(99999)
TenBillion == Str(100000) \o Zeros(5)
SomeMs     == Str(1700000) \o Str(100123)
SomeSecs   == Str(1700000000)

\* startTime and endTime as they are sent together; <<>> is "not sent"
TimeRanges ==
  {<< <<>>, <<>> >>,
   << <<<<>>>>, <<<<>>>> >>,
   << <<Str(0)>>, <<TenNines>> >>,
   << <<TenNines>>, <<TenBillion>> >>,
   << <<TenBillion>>, <<SomeMs>> >>,
   << <<SomeMs>>, <<>> >>,
   << <<>>, <<SomeSecs>> >>}

\* an optional parameter: <<>> stands for "not in the query"
Opt(k, choice) == IF choice = <<>> THEN <<>> ELSE (k :> choice[1])

Choices(values) == {<<>>} \cup {<<v>> : v \in values}

Queries(route) ==
  IF route \in CandleRoutes THEN
    {Opt("symbol", s) @@ Opt("granularity", g) @@ Opt("limit", l) @@
       Opt("startTime", r[1]) @@ Opt("endTime", r[2]) :
       s \in Choices({"BTCUSDT", ""}), g \in Choices(GranularityInputs),
       l \in Choices(CandleLimitInputs), r \in TimeRanges}
  ELSE IF route \in {SpotOrderbook, FuturesOrderbook} THEN
    {Opt("symbol", s) @@ Opt("limit", l) :
       s \in Choices({"BTCUSDT", ""}), l \in Choices(DepthLimitInputs)}
  ELSE IF route \in SymbolRoutes THEN
    {Opt("symbol", s) : s \in Choices(Symbols \cup {""})}
  ELSE {<<>>}

\* ------------------------------------------------------------------------
\* The proxy handlers
\* ------------------------------------------------------------------------
\* one retry too many
RetriesMutant == 3 + 1

Retries == 3

NoCall == [op |-> ""]
NoResult == [state |-> "none"]
NoDownload == [format |-> "none"]
Null == [null |-> TRUE]

Init ==
  /\ request = NoRequest
  /\ pc = "idle"
  /\ endpointIdx = 0
  /\ attempt = 0
  /\ upstream = <<>>
  /\ waits = <<>>
  /\ response = NoResponse
  /\ call = NoCall
  /\ sent = <<>>
  /\ answers = <<>>
  /\ result = NoResult
  /\ download = NoDownload
  /\ mounted = "no"
  /\ selectedSymbol = "BTCUSDT"
  /\ marketType = "spot"
  /\ timeRange = 30
  /\ autoRefreshOrderbook = TRUE
  /\ orderbook = Null
  /\ orderbookLoading = FALSE
  /\ orderbookError = ""
  /\ historicalData = <<>>
  /\ summary = Null
  /\ chartData = <<>>
  /\ loading = FALSE
  /\ error = ""
  /\ interval = Null
  /\ timers = {}
  /\ pending = {}
  /\ settled = 0
  /\ arrived = [orderbook |-> <<>>, historical |-> <<>>]
  /\ issued = 0

\* setTimeout(() => controller.abort(), ms) around a fetch, in milliseconds;
\* 0 when the fetch is given no signal
AbortTimeout(route) ==
  CASE route \in {SpotTicker, SpotTickers} -> 0
    [] route \in {SpotCandles, FuturesCandles, FuturesOrderbook,
                  SpotSymbolsPlain} -> 15000
    [] OTHER -> 10000

\* one fetch(url, ...) of a handler, as the upstream sees it
Fetch(route, q, idx, i) ==
  [endpoint |-> idx, url |-> Endpoints(route)[idx],
   params |-> UpstreamParams(route, q), attempt |-> i,
   timeout |-> AbortTimeout(route), reply |-> Pending]

\* A GET handler from its first line to its first await: the 400 answer
\* when the symbol is required and missing, else the first fetch.
Begin(route, q) ==
  /\ waits' = <<>>
  /\ attempt' = 0
  /\ IF route \in SymbolRoutes /\ SymbolMissing(q)
       THEN /\ response' = BadRequest
            /\ pc' = "done"
            /\ upstream' = <<>>
            /\ endpointIdx' = 0
       ELSE /\ response' = NoResponse
            /\ pc' = "fetch"
            /\ upstream' = <<Fetch(route, q, 1, 0)>>
            /\ endpointIdx' = 1

\* an HTTP client sends GET route?query to the proxy
HttpGet(route, q) ==
  /\ pc = "idle"
  /\ call = NoCall
  /\ request' = [route |-> route, query |-> q, origin |-> "direct"]
  /\ Begin(route, q)
  /\ UNCHANGED <<clientVars, dashboardVars>>

\* the upstream log with the reply of the fetch in flight filled in
Settled(reply) == [upstream EXCEPT ![Len(upstream)].reply = reply]

Return(log, resp) ==
  /\ upstream' = log
  /\ response' = resp
  /\ pc' = "done"
  /\ UNCHANGED <<request, endpointIdx, attempt, waits, clientVars, dashboardVars>>

\* the catch block inside the loop over endpoints ("continue"), and the
\* mock payload after the loop
EndpointFailed(log) ==
  IF endpointIdx < Len(Endpoints(request.route))
    THEN /\ upstream' =
              Append(log, Fetch(request.route, request.query,
                                endpointIdx + 1, 0))
         /\ endpointIdx' = endpointIdx + 1
         /\ attempt' = 0
         /\ UNCHANGED <<request, pc, waits, response, clientVars, dashboardVars>>
    ELSE Return(log, MockResponse(request.route))

\* fetchWithRetry also retries a response that is not ok
RetryableMutant(reply) == reply.kind \in {"throw", "timeout", "non2xx"}

\* fetchWithRetry reaches its catch block: fetch threw or was aborted
Retryable(reply) == reply.kind \in {"throw", "timeout"}

\* a backoff that does not grow
BackoffMutant(i) == 1000

\* 1000 * (i + 1), the milliseconds fetchWithRetry sleeps after attempt i
\* (counted from 0) has thrown
Backoff(i) == 1000 * (i + 1)

\* fetchWithRetry and the loop body around it: the fetch in flight settles
FetchWithRetrySettles ==
  /\ pc = "fetch"
  /\ request.route \in RetryRoutes
  /\ \E reply \in Replies(request.route, endpointIdx) :
     LET log == Settled(reply)
         url == Endpoints(request.route)[endpointIdx]
     IN  IF Retryable(reply)
           THEN IF attempt = Retries - 1
                  THEN EndpointFailed(log)
                  ELSE /\ upstream' = log
                       /\ waits' = Append(waits, Backoff(attempt))
                       /\ pc' = "backoff"
                       /\ UNCHANGED <<request, endpointIdx, attempt,
                                       response, clientVars, dashboardVars>>
         ELSE IF reply.kind = "non2xx" \/ reply.body = InvalidJson
           THEN EndpointFailed(log)
         ELSE Return(log, LiveResponse(request.route,
                            Normalize(request.route, url, reply.body)))

\* the backoff timer of fetchWithRetry fires: next iteration of its loop
BackoffElapsed ==
  /\ pc = "backoff"
  /\ attempt' = attempt + 1
  /\ upstream' = Append(upstream, Fetch(request.route, request.query,
                                        endpointIdx, attempt + 1))
  /\ pc' = "fetch"
  /\ UNCHANGED <<request, endpointIdx, waits, response, clientVars, dashboardVars>>

\* the code of an answer is not looked at
ApiErrorMutant(body) == FALSE

\* data.code !== '00000'
ApiError(body) == body.code # "00000"

\* the loop body of the spot order-book handler: the fetch in flight settles
OrderbookFetchSettles ==
  /\ pc = "fetch"
  /\ request.route = SpotOrderbook
  /\ \E reply \in Replies(request.route, endpointIdx) :
     LET log == Settled(reply)
     IN  IF \/ reply.kind # "2xx"
            \/ reply.body = InvalidJson
            \/ ApiError(reply.body)
           THEN EndpointFailed(log)
           ELSE Return(log, LiveResponse(request.route, reply.body))

\* data.data.find(t => t.symbol === symbol) of the spot ticker route
FindTicker(body, symbol) ==
  LET hits == {i \in 1..Len(body.data) : body.data[i].symbol = symbol}
  IN  IF hits = {} THEN <<>>
      ELSE <<body.data[CHOOSE i \in hits : \A j \in hits : i <= j]>>

\* the success path of a single-endpoint handler, after response.json()
SingleSuccess(route, q, body) ==
  IF route = SpotTicker
    THEN IF body.shape # "envelope" \/ "data" \notin DOMAIN body
           THEN ServerError(route)
         ELSE IF FindTicker(body, q["symbol"]) = <<>>
           THEN Json(404, {}, "error",
                     ErrorBody("Symbol " \o q["symbol"] \o " not found"))
         ELSE LiveResponse(route,
                [body EXCEPT !.data = FindTicker(body, q["symbol"])])
    ELSE LiveResponse(route, body)

\* a handler with one upstream call: the fetch in flight settles
SingleFetchSettles ==
  /\ pc = "fetch"
  /\ request.route \in SingleRoutes
  /\ \E reply \in Replies(request.route, endpointIdx) :
     LET log == Settled(reply)
     IN  IF reply.kind # "2xx" \/ reply.body = InvalidJson
           THEN Return(log, ServerError(request.route))
           ELSE Return(log, SingleSuccess(request.route, request.query,
                                          reply.body))

\* the upstream never answers a fetch that has no abort timeout: the await
\* never resumes
FetchNeverSettles ==
  /\ pc = "fetch"
  /\ upstream[Len(upstream)].timeout = 0
  /\ upstream' = Settled([kind |-> "silent", body |-> NoBody])
  /\ pc' = "hung"
  /\ UNCHANGED <<request, endpointIdx, attempt, waits, response, clientVars, dashboardVars>>

\* the proxy is idle again
ProxyIdle ==
  /\ request' = NoRequest
  /\ pc' = "idle"
  /\ endpointIdx' = 0
  /\ attempt' = 0
  /\ upstream' = <<>>
  /\ waits' = <<>>
  /\ response' = NoResponse

\* the response reaches the HTTP client that sent the request
Deliver ==
  /\ pc = "done"
  /\ request.origin = "direct"
  /\ ProxyIdle
  /\ UNCHANGED <<clientVars, dashboardVars>>

\* ------------------------------------------------------------------------
\* The client data service (BitgetApiService)
\* ------------------------------------------------------------------------
ClientGranularityMap ==
  ("1min" :> "1min") @@ ("5min" :> "5min") @@ ("15min" :> "15min") @@
  ("1h" :> "1h") @@ ("4h" :> "4h") @@ ("1day" :> "1day") @@
  ("1week" :> "1week") @@ ("1month" :> "1M")

\* BitgetApiService.mapGranularity
mapGranularityClient(granularity) ==
  LookupOr(ClientGranularityMap, granularity, granularity)

ClientCandlesMaxLimit   == 1000
ClientOrderbookMaxLimit == 500
FallbackLimit           == 200

\* if (startTime) params.startTime = startTime
IfTruthy(k, choice) ==
  IF choice = <<>> \/ choice[1] = <<>> THEN <<>> ELSE (k :> choice[1])

\* params of axios.get(`${baseURL}/candles`, { params })
CandlesQuery(symbol, granularity, startTime, endTime, limit) ==
  ("symbol" :> symbol) @@
  ("granularity" :> mapGranularityClient(granularity)) @@
  ("limit" :> Str(Min(limit, ClientCandlesMaxLimit))) @@
  IfTruthy("startTime", startTime) @@ IfTruthy("endTime", endTime)

\* params of axios.get(`${baseURL}/orderbook`, { params })
OrderbookQuery(symbol, limit) ==
  ("symbol" :> symbol) @@
  ("limit" :> Str(Min(limit, ClientOrderbookMaxLimit)))

CandlesRoute(market) ==
  IF market = "futures" THEN FuturesCandles ELSE SpotCandles

OrderbookRoute(market) ==
  IF market = "futures" THEN FuturesOrderbook ELSE SpotOrderbook

\* the limit estimate with Math.floor in place of Math.ceil
PointLimitMutant(days, granularity) ==
  CASE granularity = "1min"   -> Min(days * 24 * 60, 1000)
    [] granularity = "5min"   -> Min(days * 24 * 12, 1000)
    [] granularity = "15min"  -> Min(days * 24 * 4, 1000)
    [] granularity = "1h"     -> Min(days * 24, 1000)
    [] granularity = "4h"     -> Min(days * 6, 1000)
    [] granularity = "1day"   -> Min(days, 1000)
    [] granularity = "1week"  -> Min(days \div 7, 1000)
    [] granularity = "1month" -> Min(days \div 30, 1000)
    [] OTHER                  -> Min(days, 1000)

\* the limit estimate of getDataForAI (the switch on granularity)
PointLimit(days, granularity) ==
  CASE granularity = "1min"   -> Min(days * 24 * 60, 1000)
    [] granularity = "5min"   -> Min(days * 24 * 12, 1000)
    [] granularity = "15min"  -> Min(days * 24 * 4, 1000)
    [] granularity = "1h"     -> Min(days * 24, 1000)
    [] granularity = "4h"     -> Min(days * 6, 1000)
    [] granularity = "1day"   -> Min(days, 1000)
    [] granularity = "1week"  -> Min((days + 6) \div 7, 1000)
    [] granularity = "1month" -> Min((days + 29) \div 30, 1000)
    [] OTHER                  -> Min(days, 1000)

\* days * 24 * 60 * 60, a window in seconds
DaysMsMutant(days) == Str(days * 864) \o Zeros(2)

\* days * 24 * 60 * 60 * 1000
DaysMs(days) == Str(days * 864) \o Zeros(5)

\* candle rows as the exchange sends them: seven texts each
Dec(i, f) == Str(i) \o <<".">> \o Str(f)

CandleRowSet ==
  {<<Str(1700000) \o Str(100000), Str(100), Dec(110, 5), Dec(95, 25),
     Str(105), Dec(10, 5), Str(1050)>>,
   <<Str(1700086) \o Str(500000), Str(105), Str(120), Dec(101, 5),
     Dec(118, 75), Str(20), Str(2300)>>,
   <<Str(1700172) \o Str(900000), Dec(118, 75), Str(119), Dec(90, 5),
     Str(92), Dec(7, 25), Str(700)>>}

CandleSeries == UNION {[1..n -> CandleRowSet] : n \in 0..MaxCandles}

\* the map callback of getHistoricalData
ParseCandle(candle) ==
  [timestamp |-> parseInt(candle[1]), open |-> parseFloat(candle[2]),
   high |-> parseFloat(candle[3]), low |-> parseFloat(candle[4]),
   close |-> parseFloat(candle[5]), volume |-> parseFloat(candle[6]),
   quoteVolume |-> parseFloat(candle[7])]

ParseCandles(rows) == [i \in 1..Len(rows) |-> ParseCandle(rows[i])]

\* the comparator (a, b) => b.timestamp - a.timestamp is positive
ComesAfterMutant(a, b) == NumLess(a.timestamp, b.timestamp)

\* the comparator (a, b) => a.timestamp - b.timestamp is positive
ComesAfter(a, b) == NumLess(b.timestamp, a.timestamp)

\* Array.prototype.sort with that comparator: a stable insertion
RECURSIVE InsertCandle(_, _)
InsertCandle(sorted, c) ==
  IF sorted = <<>> THEN <<c>>
  ELSE IF ComesAfter(sorted[Len(sorted)], c)
    THEN Append(InsertCandle(SubSeq(sorted, 1, Len(sorted) - 1), c),
                sorted[Len(sorted)])
  ELSE Append(sorted, c)

RECURSIVE SortCandles(_)
SortCandles(candles) ==
  IF candles = <<>> THEN <<>>
  ELSE InsertCandle(SortCandles(SubSeq(candles, 1, Len(candles) - 1)),
                    candles[Len(candles)])

\* response.data.data || [] of a candles answer
RowsOf(json) ==
  IF json.shape = "envelope" /\ "data" \in DOMAIN json
    THEN CandleSeries ELSE {<<>>}

\* the catch block rethrows without naming the symbol
HistoricalErrorMutant(market, symbol) ==
  IF market = "futures"
    THEN "Failed to fetch futures historical data"
    ELSE "Failed to fetch historical data"

HistoricalError(market, symbol) ==
  IF market = "futures"
    THEN "Failed to fetch futures historical data for " \o symbol
    ELSE "Failed to fetch historical data for " \o symbol

\* what getHistoricalData / getFuturesHistoricalData makes of the answer
HistoricalOutcomes(resp, market, symbol) ==
  IF resp.status \notin 200..299
    THEN {[ok |-> FALSE, rows |-> <<>>, data |-> <<>>,
           error |-> HistoricalError(market, symbol)]}
    ELSE {[ok |-> TRUE, rows |-> rows,
           data |-> SortCandles(ParseCandles(rows)), error |-> ""] :
            rows \in RowsOf(resp.json)}

\* a / b and r * 100 on JavaScript numbers, held as exact fractions; a zero
\* denominator stands for Infinity, -Infinity or NaN
Ratio(a, b) == [num |-> a, den |-> b]

Times100(r) == [num |-> r.num * 100, den |-> r.den]

RECURSIVE SumVolume(_)
SumVolume(data) ==
  IF data = <<>> THEN 0
  ELSE SumVolume(SubSeq(data, 1, Len(data) - 1)) + data[Len(data)].volume

\* totalDays: data.length, the number of points
TotalDaysMutant(data, days) == Len(data)

\* totalDays: days
TotalDays(data, days) == days

\* the summary with the price change taken from the end to the start
SummaryMutant(data, days) ==
  [totalDays |-> TotalDays(data, days),
   startPrice |-> data[1].open,
   endPrice |-> data[Len(data)].close,
   highestPrice |->
     CHOOSE h \in {data[i].high : i \in 1..Len(data)} :
       \A i \in 1..Len(data) : data[i].high <= h,
   lowestPrice |->
     CHOOSE l \in {data[i].low : i \in 1..Len(data)} :
       \A i \in 1..Len(data) : l <= data[i].low,
   totalVolume |-> SumVolume(data),
   priceChange |-> data[1].open - data[Len(data)].close,
   priceChangePercent |->
     Times100(Ratio(data[1].open - data[Len(data)].close, data[1].open))]

\* the summary of getDataForAI
Summary(data, days) ==
  [totalDays |-> TotalDays(data, days),
   startPrice |-> data[1].open,
   endPrice |-> data[Len(data)].close,
   highestPrice |->
     CHOOSE h \in {data[i].high : i \in 1..Len(data)} :
       \A i \in 1..Len(data) : data[i].high <= h,
   lowestPrice |->
     CHOOSE l \in {data[i].low : i \in 1..Len(data)} :
       \A i \in 1..Len(data) : l <= data[i].low,
   totalVolume |-> SumVolume(data),
   priceChange |-> data[Len(data)].close - data[1].open,
   priceChangePercent |->
     Times100(Ratio(data[Len(data)].close - data[1].open, data[1].open))]

Failure(message) == [state |-> "error", message |-> message]
Success(value) == [state |-> "ok", value |-> value]

\* arguments the callers of the service pass
Markets == {"spot", "futures"}
ClientGranularities == GranularityTokens \cup {"1D"}
ClientLimits == {5, 1000, 5000}
DepthLimits == {20, 100, 500, 501, 5000}
ClientRanges == {<< <<>>, <<>> >>, << <<TenBillion>>, <<SomeMs>> >>}
Days == {1, 30}
Clock == {SomeMs}

\* axios.get against the local proxy
SendToProxy(route, q) ==
  /\ request' = [route |-> route, query |-> q, origin |-> "client"]
  /\ Begin(route, q)
  /\ sent' = Append(sent, [route |-> route, query |-> q])

\* axios.get rejects with a network error: the proxy is not reached or the
\* connection is lost before it answers; there is no response (status 0)
AxiosNetworkError ==
  /\ request.origin = "client"
  /\ pc \in {"fetch", "backoff", "hung"}
  /\ response' = Json(0, {}, "network", NoBody)
  /\ pc' = "done"
  /\ UNCHANGED <<request, endpointIdx, attempt, upstream, waits, clientVars, dashboardVars>>

\* getHistoricalDataByMarket(marketType, symbol, granularity, startTime,
\* endTime, limit) up to its axios.get
GetHistoricalDataByMarket(market, symbol, granularity, range, limit) ==
  /\ pc = "idle"
  /\ call = NoCall
  /\ call' = [op |-> "getHistoricalDataByMarket", market |-> market,
              symbol |-> symbol, granularity |-> granularity,
              limit |-> limit, stage |-> "await"]
  /\ SendToProxy(CandlesRoute(market),
                 CandlesQuery(symbol, granularity, range[1], range[2], limit))
  /\ UNCHANGED <<answers, result, download, dashboardVars>>

\* ... and from the answer of the proxy to its return
HistoricalDataReturns ==
  /\ pc = "done"
  /\ request.origin = "client"
  /\ call.op = "getHistoricalDataByMarket"
  /\ \E o \in HistoricalOutcomes(response, call.market, call.symbol) :
       /\ answers' = Append(answers, [ok |-> o.ok, rows |-> o.rows,
                                      status |-> response.status])
       /\ result' = IF o.ok THEN Success(o.data) ELSE Failure(o.error)
  /\ call' = [call EXCEPT !.stage = "returned"]
  /\ ProxyIdle
  /\ UNCHANGED <<sent, download, dashboardVars>>

\* getOrderbookByMarket(marketType, symbol, limit) up to its axios.get
GetOrderbookByMarket(market, symbol, limit) ==
  /\ pc = "idle"
  /\ call = NoCall
  /\ call' = [op |-> "getOrderbookByMarket", market |-> market,
              symbol |-> symbol, limit |-> limit, stage |-> "await"]
  /\ SendToProxy(OrderbookRoute(market), OrderbookQuery(symbol, limit))
  /\ UNCHANGED <<answers, result, download, dashboardVars>>

\* ... and from the answer of the proxy to its return
OrderbookReturns ==
  /\ pc = "done"
  /\ request.origin = "client"
  /\ call.op = "getOrderbookByMarket"
  /\ result' =
       IF response.status \in 200..299
         THEN Success(IF "data" \in DOMAIN response.json
                        THEN <<response.json.data>> ELSE <<>>)
         ELSE Failure((IF call.market = "futures"
                         THEN "Failed to fetch futures orderbook for "
                         ELSE "Failed to fetch orderbook for ")
                      \o call.symbol)
  /\ call' = [call EXCEPT !.stage = "returned"]
  /\ ProxyIdle
  /\ UNCHANGED <<sent, answers, download, dashboardVars>>

SymbolsRoute(market) ==
  IF market = "futures" THEN FuturesSymbols ELSE SpotSymbols

TickersRoute(market) ==
  IF market = "futures" THEN FuturesTickers ELSE SpotTickers

\* getSymbolsByMarket / getTickersByMarket up to their axios.get
GetListByMarket(op, market) ==
  /\ pc = "idle"
  /\ call = NoCall
  /\ call' = [op |-> op, market |-> market, stage |-> "await"]
  /\ SendToProxy(IF op = "getSymbolsByMarket" THEN SymbolsRoute(market)
                                               ELSE TickersRoute(market),
                 <<>>)
  /\ UNCHANGED <<answers, result, download, dashboardVars>>

GetSymbolsByMarket(market) == GetListByMarket("getSymbolsByMarket", market)

GetTickersByMarket(market) == GetListByMarket("getTickersByMarket", market)

ListError(op, market) ==
  CASE op = "getSymbolsByMarket" /\ market = "spot" ->
         "Failed to fetch symbols"
    [] op = "getSymbolsByMarket" /\ market = "futures" ->
         "Failed to fetch futures symbols"
    [] op = "getTickersByMarket" /\ market = "spot" ->
         "Failed to fetch ticker data"
    [] op = "getTickersByMarket" /\ market = "futures" ->
         "Failed to fetch futures ticker data"

\* ... and from the answer of the proxy to their return:
\* response.data.data || []
ListReturns ==
  /\ pc = "done"
  /\ request.origin = "client"
  /\ call.op \in {"getSymbolsByMarket", "getTickersByMarket"}
  /\ result' =
       IF response.status \in 200..299
         THEN Success(IF "data" \in DOMAIN response.json
                        THEN response.json.data ELSE <<>>)
         ELSE Failure(ListError(call.op, call.market))
  /\ call' = [call EXCEPT !.stage = "returned"]
  /\ ProxyIdle
  /\ UNCHANGED <<sent, answers, download, dashboardVars>>

\* getDataForAI / getDataForAIByMarket up to the first await: the window,
\* the limit estimate and the time-bounded query
StartDataForAI(op, market, symbol, days, granularity, now) ==
  /\ pc = "idle"
  /\ call = NoCall
  /\ call' = [op |-> op, market |-> market, symbol |-> symbol,
              granularity |-> granularity, days |-> days,
              limit |-> PointLimit(days, granularity), now |-> now,
              stage |-> "first"]
  /\ SendToProxy(CandlesRoute(market),
                 CandlesQuery(symbol, granularity,
                              <<NumSub(now, DaysMs(days))>>, <<now>>,
                              PointLimit(days, granularity)))
  /\ UNCHANGED <<answers, result, download, dashboardVars>>

GetDataForAI(symbol, days, granularity, now) ==
  StartDataForAI("getDataForAI", "spot", symbol, days, granularity, now)

GetDataForAIByMarket(market, symbol, days, granularity, now) ==
  StartDataForAI("getDataForAIByMarket", market, symbol, days, granularity,
                 now)

\* the tail of getDataForAI with an error that does not name the symbol and
\* a result that drops the series
ConcludeMutant(data) ==
  IF data = <<>>
    THEN Failure("No data available")
    ELSE Success([symbol |-> call.symbol, data |-> <<>>,
                  summary |-> Summary(data, call.days)])

\* the tail of getDataForAI: the empty check and the summary
Conclude(data) ==
  IF data = <<>>
    THEN Failure("No data available for " \o call.symbol)
    ELSE Success([symbol |-> call.symbol, data |-> data,
                  summary |-> Summary(data, call.days)])

\* the time-bounded query returns: the result, or the fallback query
DataForAIFirstReturns ==
  /\ pc = "done"
  /\ request.origin = "client"
  /\ call.op \in {"getDataForAI", "getDataForAIByMarket"}
  /\ call.stage = "first"
  /\ \E o \in HistoricalOutcomes(response, call.market, call.symbol) :
       /\ answers' = Append(answers, [ok |-> o.ok, rows |-> o.rows,
                                      status |-> response.status])
       /\ IF o.ok /\ o.data = <<>>
            THEN /\ call' = [call EXCEPT !.stage = "fallback"]
                 /\ SendToProxy(CandlesRoute(call.market),
                      CandlesQuery(call.symbol, call.granularity, <<>>, <<>>,
                                   Min(call.limit, FallbackLimit)))
                 /\ UNCHANGED <<result, download, dashboardVars>>
            ELSE /\ call' = [call EXCEPT !.stage = "returned"]
                 /\ result' = IF o.ok THEN Conclude(o.data)
                              ELSE Failure(o.error)
                 /\ ProxyIdle
                 /\ UNCHANGED <<sent, download, dashboardVars>>

\* the fallback query returns
DataForAIFallbackReturns ==
  /\ pc = "done"
  /\ request.origin = "client"
  /\ call.op \in {"getDataForAI", "getDataForAIByMarket"}
  /\ call.stage = "fallback"
  /\ \E o \in HistoricalOutcomes(response, call.market, call.symbol) :
       /\ answers' = Append(answers, [ok |-> o.ok, rows |-> o.rows,
                                      status |-> response.status])
       /\ result' = IF o.ok THEN Conclude(o.data) ELSE Failure(o.error)
  /\ call' = [call EXCEPT !.stage = "returned"]
  /\ ProxyIdle
  /\ UNCHANGED <<sent, download, dashboardVars>>

\* ------------------------------------------------------------------------
\* Export
\* ------------------------------------------------------------------------
\* Number.prototype.toString that keeps one fraction digit only
NumberToStringMutant(h) ==
  IF h % 100 = 0 THEN Str(h \div 100)
  ELSE Str(h \div 100) \o <<".">> \o Str((h % 100) \div 10)

\* Number.prototype.toString of a number held in hundredths: the shortest
\* decimal text that reads back as the number
NumberToString(h) ==
  IF h % 100 = 0 THEN Str(h \div 100)
  ELSE IF h % 10 = 0 THEN Str(h \div 100) \o <<".">> \o Str((h % 100) \div 10)
  ELSE Str(h \div 100) \o <<".">> \o Str((h % 100) \div 10) \o Str(h % 10)

\* quotient and remainder of a numeral by d, by long division
RECURSIVE DivMod(_, _, _, _)
DivMod(digits, d, q, r) ==
  IF digits = <<>> THEN [quot |-> q, rem |-> r]
  ELSE LET x == r * 10 + DigitValue(Head(digits))
       IN  DivMod(Tail(digits), d, q * 10 + x \div d, x % d)

RECURSIVE PadStart(_, _)
PadStart(s, n) == IF Len(s) >= n THEN s ELSE PadStart(<<"0">> \o s, n)

\* year, month and day of a day number counted from 1970-01-01
CivilFromDays(days) ==
  LET z   == days + 719468
      era == z \div 146097
      doe == z - era * 146097
      yoe == (doe - doe \div 1460 + doe \div 36524 - doe \div 146096) \div 365
      doy == doe - (365 * yoe + yoe \div 4 - yoe \div 100)
      mp  == (5 * doy + 2) \div 153
      m   == IF mp < 10 THEN mp + 3 ELSE mp - 9
  IN  [year |-> yoe + era * 400 + (IF m <= 2 THEN 1 ELSE 0), month |-> m,
       day |-> doy - (153 * mp + 2) \div 5 + 1]

\* new Date(t).toISOString() for a time t >= 0 in milliseconds
toISOString(t) ==
  LET dm == DivMod(t, 86400000, 0, 0)
      c  == CivilFromDays(dm.quot)
      ms == dm.rem
  IN  PadStart(Str(c.year), 4) \o <<"-">> \o PadStart(Str(c.month), 2)
        \o <<"-">> \o PadStart(Str(c.day), 2) \o <<"T">>
        \o PadStart(Str(ms \div 3600000), 2) \o <<":">>
        \o PadStart(Str((ms \div 60000) % 60), 2) \o <<":">>
        \o PadStart(Str((ms \div 1000) % 60), 2) \o <<".">>
        \o PadStart(Str(ms % 1000), 3) \o <<"Z">>

\* String.prototype.split(sep) of a text without a trailing piece
RECURSIVE Split(_, _)
Split(s, sep) ==
  IF \A i \in 1..Len(s) : s[i] # sep THEN <<s>>
  ELSE LET k == CHOOSE i \in 1..Len(s) :
                  s[i] = sep /\ \A j \in 1..(i - 1) : s[j] # sep
       IN  <<SubSeq(s, 1, k - 1)>> \o Split(SubSeq(s, k + 1, Len(s)), sep)

\* new Date(timestamp).toISOString().split('T')[0]
DateOf(timestamp) == Split(toISOString(timestamp), "T")[1]

\* Array.prototype.join(sep)
RECURSIVE Join(_, _)
Join(parts, sep) ==
  IF parts = <<>> THEN <<>>
  ELSE IF Len(parts) = 1 THEN parts[1]
  ELSE parts[1] \o <<sep>> \o Join(Tail(parts), sep)

CsvHeaders ==
  <<<<"D", "a", "t", "e">>, <<"O", "p", "e", "n">>, <<"H", "i", "g", "h">>,
    <<"L", "o", "w">>, <<"C", "l", "o", "s", "e">>,
    <<"V", "o", "l", "u", "m", "e">>,
    <<"Q", "u", "o", "t", "e", " ", "V", "o", "l", "u", "m", "e">>>>

\* the row of one candle
CsvRow(candle) ==
  <<DateOf(candle.timestamp), NumberToString(candle.open),
    NumberToString(candle.high), NumberToString(candle.low),
    NumberToString(candle.close), NumberToString(candle.volume),
    NumberToString(candle.quoteVolume)>>

\* exportToCSV(data, symbol): the text, character by character
exportToCSV(data, symbol) ==
  LET rows  == [i \in 1..Len(data) |-> CsvRow(data[i])]
      lines == <<CsvHeaders>> \o rows
  IN  Join([i \in 1..Len(lines) |-> Join(lines[i], ",")], "\n")

\* JSON.stringify of a string of letters and digits: nothing to escape
Quoted(text) == [literal |-> "string", text |-> text]

\* JSON.stringify of a finite number: its toString
NumberLiteral(text) == [literal |-> "number", text |-> text]

\* the element of data with the timestamp in seconds
JsonCandleMutant(candle) ==
  [date |-> Quoted(DateOf(candle.timestamp)),
   timestamp |-> NumberLiteral(FloorDiv1000(candle.timestamp)),
   open |-> NumberLiteral(NumberToString(candle.open)),
   high |-> NumberLiteral(NumberToString(candle.high)),
   low |-> NumberLiteral(NumberToString(candle.low)),
   close |-> NumberLiteral(NumberToString(candle.close)),
   volume |-> NumberLiteral(NumberToString(candle.volume)),
   quoteVolume |-> NumberLiteral(NumberToString(candle.quoteVolume))]

\* the element of data exportToJSON makes of one candle
JsonCandle(candle) ==
  [date |-> Quoted(DateOf(candle.timestamp)),
   timestamp |-> NumberLiteral(candle.timestamp),
   open |-> NumberLiteral(NumberToString(candle.open)),
   high |-> NumberLiteral(NumberToString(candle.high)),
   low |-> NumberLiteral(NumberToString(candle.low)),
   close |-> NumberLiteral(NumberToString(candle.close)),
   volume |-> NumberLiteral(NumberToString(candle.volume)),
   quoteVolume |-> NumberLiteral(NumberToString(candle.quoteVolume))]

\* exportToJSON(data, symbol, summary) at the time now: the document that
\* JSON.stringify writes, member by member; the summary given is <<>> when it is
\* undefined, and then the member is left out
exportToJSON(data, symbol, given, now) ==
  [symbol |-> Quoted(symbol),
   exportDate |-> Quoted(toISOString(now)),
   summary |-> given,
   data |-> [i \in 1..Len(data) |-> JsonCandle(data[i])]]

\* what the dashboard exports: the series it loaded
Exportable ==
  /\ call # NoCall
  /\ call.stage = "returned"
  /\ call.op \in {"getHistoricalDataByMarket", "getDataForAI",
                  "getDataForAIByMarket"}
  /\ result.state = "ok"
  /\ download = NoDownload

ExportedSeries ==
  IF call.op = "getHistoricalDataByMarket" THEN result.value
  ELSE result.value.data

ExportedSummary ==
  IF call.op = "getHistoricalDataByMarket" THEN <<>>
  ELSE <<result.value.summary>>

ExportToCSV ==
  /\ Exportable
  /\ download' = [format |-> "csv", series |-> ExportedSeries,
                  symbol |-> call.symbol,
                  text |-> exportToCSV(ExportedSeries, call.symbol)]
  /\ UNCHANGED <<proxyVars, call, sent, answers, result, dashboardVars>>

ExportToJSON(now) ==
  /\ Exportable
  /\ download' = [format |-> "json", series |-> ExportedSeries,
                  symbol |-> call.symbol,
                  document |-> exportToJSON(ExportedSeries, call.symbol,
                                            ExportedSummary, now)]
  /\ UNCHANGED <<proxyVars, call, sent, answers, result, dashboardVars>>

\* the caller has taken the result
Release ==
  /\ call # NoCall
  /\ call.stage = "returned"
  /\ call' = NoCall
  /\ sent' = <<>>
  /\ answers' = <<>>
  /\ result' = NoResult
  /\ download' = NoDownload
  /\ UNCHANGED <<proxyVars, dashboardVars>>

\* ------------------------------------------------------------------------
\* The Dashboard
\* ------------------------------------------------------------------------
MaxCalls == 4

DashboardSymbols == {"BTCUSDT", "ETHUSDT"}
TimeRangeOptions == {30, 1}

\* the order book the exchange has for a symbol of a market at the time a
\* request is answered
LevelOf(market, symbol) ==
  IF symbol = "BTCUSDT"
    THEN (IF market = "spot" THEN "45010" ELSE "45020")
    ELSE (IF market = "spot" THEN "3201" ELSE "3202")

OrderbookAt(market, symbol, ts) ==
  [asks |-> <<<<LevelOf(market, symbol) \o ".5", "0.5">>>>,
   bids |-> <<<<LevelOf(market, symbol) \o ".0", "0.7">>>>,
   ts |-> ts]

\* the candle rows the exchange may answer a Dashboard query with
DashboardRows ==
  {<<<<Str(1700000) \o Str(100000), Str(100), Dec(110, 5), Dec(95, 25),
       Str(105), Dec(10, 5), Str(1050)>>>>,
   <<<<Str(1700086) \o Str(500000), Str(105), Str(120), Dec(101, 5),
       Dec(118, 75), Str(20), Str(2300)>>>>}

\* what getDataForAIByMarket resolves with
DataForAIResult(symbol, days, rows) ==
  LET data == SortCandles(ParseCandles(rows))
  IN  [symbol |-> symbol, data |-> data, summary |-> Summary(data, days)]

\* result.data.map(item => ({ date: ..., open, high, low, close, volume }))
Transformed(data) ==
  [i \in DOMAIN data |->
     [date |-> [toLocaleDateString |-> data[i].timestamp],
      open |-> data[i].open, high |-> data[i].high, low |-> data[i].low,
      close |-> data[i].close, volume |-> data[i].volume]]

\* a call of loadOrderbook or loadHistoricalData up to its await: the
\* closure holds the symbol, market type and time range of its render
ServiceCall(id, kind, by, symbol, market, days) ==
  [id |-> id, kind |-> kind, by |-> by, symbol |-> symbol,
   market |-> market, days |-> days]

\* the ways a call can settle: the service throws, or resolves with a value
Outcomes(c) ==
  {[ok |-> FALSE, value |-> Null]} \cup
  (IF c.symbol = "" THEN {}
   ELSE IF c.kind = "orderbook"
     THEN {[ok |-> TRUE, value |-> OrderbookAt(c.market, c.symbol, c.id)]}
   ELSE {[ok |-> TRUE, value |-> DataForAIResult(c.symbol, c.days, rows)] :
           rows \in DashboardRows})

\* the cleanup of the auto-refresh effect forgets to clear its interval
ClearIntervalMutant(active, handle) == active

\* clearInterval(interval)
ClearInterval(active, handle) == active \ {handle}

\* setInterval(() => loadOrderbook(), 30000) with the closure of the render
SetInterval(active, symbol, market) ==
  [id |-> CHOOSE n \in 1..(Cardinality(active) + 1) :
            /\ n \notin {t.id : t \in active}
            /\ \A k \in 1..(n - 1) : k \in {t.id : t \in active},
   every |-> 30000, symbol |-> symbol, market |-> market]

\* the auto-refresh effect runs again: the cleanup of its last run, then
\* its body with the new symbol, market type and toggle
AutoRefreshEffect(symbol, market, auto) ==
  LET cleaned == IF interval = Null THEN timers
                 ELSE ClearInterval(timers, interval)
  IN  IF symbol = "" \/ ~auto
        THEN /\ interval' = Null
             /\ timers' = cleaned
        ELSE /\ interval' = SetInterval(cleaned, symbol, market)
             /\ timers' = cleaned \cup {SetInterval(cleaned, symbol, market)}

\* loadOrderbook() up to its await
StartOrderbook(calls) ==
  IF mounted # "gone" /\ \E c \in calls : c.kind = "orderbook"
    THEN /\ orderbookLoading' = TRUE
         /\ orderbookError' = ""
         /\ UNCHANGED orderbook
    ELSE UNCHANGED orderbookVars

\* loadHistoricalData() up to its await
StartHistorical(calls) ==
  IF mounted # "gone" /\ \E c \in calls : c.kind = "historical"
    THEN /\ loading' = TRUE
         /\ error' = ""
         /\ UNCHANGED <<historicalData, summary, chartData>>
    ELSE UNCHANGED historyVars

Issue(calls) ==
  /\ issued + Cardinality(calls) <= MaxCalls
  /\ pending' = pending \cup calls
  /\ issued' = issued + Cardinality(calls)
  /\ StartOrderbook(calls)
  /\ StartHistorical(calls)
  /\ UNCHANGED <<settled, arrived>>

\* the effects "load historical data" and "load orderbook data" after a
\* render in which their dependencies changed
LoadEffects(symbol, market, days, historical, book) ==
  Issue((IF historical /\ symbol # ""
           THEN {ServiceCall(issued + 1, "historical", "effect", symbol,
                             market, days)}
           ELSE {})
        \cup
        (IF book /\ symbol # ""
           THEN {ServiceCall(issued + 2, "orderbook", "effect", symbol,
                             market, days)}
           ELSE {}))

\* the first render and its effects
Mount ==
  /\ mounted = "no"
  /\ mounted' = "yes"
  /\ LoadEffects(selectedSymbol, marketType, timeRange, TRUE, TRUE)
  /\ AutoRefreshEffect(selectedSymbol, marketType, autoRefreshOrderbook)
  /\ UNCHANGED <<controlVars, proxyVars, clientVars>>

\* handleSymbolSelect(symbol)
SelectSymbol(symbol) ==
  /\ mounted = "yes"
  /\ symbol # selectedSymbol
  /\ selectedSymbol' = symbol
  /\ LoadEffects(symbol, marketType, timeRange, TRUE, TRUE)
  /\ AutoRefreshEffect(symbol, marketType, autoRefreshOrderbook)
  /\ UNCHANGED <<mounted, marketType, timeRange, autoRefreshOrderbook,
                 proxyVars, clientVars>>

\* setMarketType(option.value)
SelectMarketType(market) ==
  /\ mounted = "yes"
  /\ market # marketType
  /\ marketType' = market
  /\ LoadEffects(selectedSymbol, market, timeRange, TRUE, TRUE)
  /\ AutoRefreshEffect(selectedSymbol, market, autoRefreshOrderbook)
  /\ UNCHANGED <<mounted, selectedSymbol, timeRange, autoRefreshOrderbook,
                 proxyVars, clientVars>>

\* setTimeRange(option.value)
SelectTimeRange(days) ==
  /\ mounted = "yes"
  /\ days # timeRange
  /\ timeRange' = days
  /\ LoadEffects(selectedSymbol, marketType, days, TRUE, FALSE)
  /\ UNCHANGED <<mounted, selectedSymbol, marketType, autoRefreshOrderbook,
                 interval, timers, proxyVars, clientVars>>

\* setAutoRefreshOrderbook(!autoRefreshOrderbook)
ToggleAutoRefresh ==
  /\ mounted = "yes"
  /\ autoRefreshOrderbook' = ~autoRefreshOrderbook
  /\ AutoRefreshEffect(selectedSymbol, marketType, ~autoRefreshOrderbook)
  /\ UNCHANGED <<mounted, selectedSymbol, marketType, timeRange,
                 orderbookVars, historyVars, pending, settled, arrived,
                 issued, proxyVars, clientVars>>

\* an interval fires: its callback calls the loadOrderbook of its render
IntervalFires ==
  \E t \in timers :
    /\ Issue({ServiceCall(issued + 1, "orderbook", "timer", t.symbol,
                          t.market, timeRange)})
    /\ UNCHANGED <<mounted, controlVars, interval, timers, proxyVars,
                   clientVars>>

\* the Refresh button of the order book, disabled while orderbookLoading
RefreshOrderbook ==
  /\ mounted = "yes"
  /\ ~orderbookLoading
  /\ Issue({ServiceCall(issued + 1, "orderbook", "click", selectedSymbol,
                        marketType, timeRange)})
  /\ UNCHANGED <<mounted, controlVars, interval, timers, proxyVars,
                 clientVars>>

\* the Refresh Data button, disabled while loading
RefreshData ==
  /\ mounted = "yes"
  /\ ~loading
  /\ Issue({ServiceCall(issued + 1, "historical", "click", selectedSymbol,
                        marketType, timeRange)})
  /\ UNCHANGED <<mounted, controlVars, interval, timers, proxyVars,
                 clientVars>>

\* setOrderbook merges the new levels into the snapshot it holds
SetOrderbookMutant(held, data) ==
  IF held = Null THEN data
  ELSE [asks |-> held.asks \o data.asks, bids |-> data.bids, ts |-> data.ts]

\* setOrderbook(orderbookData)
SetOrderbook(held, data) == data

\* the catch block of loadHistoricalData clears the series
KeepSeriesMutant(held) == <<>>

\* the catch block of loadHistoricalData leaves the series alone
KeepSeries(held) == held

\* loadOrderbook from its await to its end: try, catch, finally
OrderbookSettles(c, o) ==
  /\ c.kind = "orderbook"
  /\ IF mounted # "yes" THEN UNCHANGED orderbookVars
     ELSE /\ IF o.ok
               THEN /\ orderbook' = SetOrderbook(orderbook, o.value)
                    /\ UNCHANGED orderbookError
               ELSE /\ orderbookError' =
                         "Failed to load orderbook for " \o c.symbol
                    /\ UNCHANGED orderbook
          /\ orderbookLoading' = FALSE
  /\ UNCHANGED historyVars

\* the finally block of loadHistoricalData runs after a success only
DoneLoadingMutant(flag, ok) == IF ok THEN FALSE ELSE flag

\* finally { setLoading(false) }
DoneLoading(flag, ok) == FALSE

\* setSummary is left out
SetSummaryMutant(held, value) == held

\* setSummary(result.summary)
SetSummary(held, value) == value

\* loadHistoricalData from its await to its end: try, catch, finally
HistoricalSettles(c, o) ==
  /\ c.kind = "historical"
  /\ IF mounted # "yes" THEN UNCHANGED historyVars
     ELSE /\ IF o.ok
               THEN /\ historicalData' = o.value.data
                    /\ summary' = SetSummary(summary, o.value.summary)
                    /\ chartData' = Transformed(o.value.data)
                    /\ UNCHANGED error
               ELSE /\ error' = "Failed to load data for " \o c.symbol
                    /\ historicalData' = KeepSeries(historicalData)
                    /\ UNCHANGED <<summary, chartData>>
          /\ loading' = DoneLoading(loading, o.ok)
  /\ UNCHANGED orderbookVars

\* the promise of a call in flight settles
Settle ==
  \E c \in pending : \E o \in Outcomes(c) :
    /\ OrderbookSettles(c, o) \/ HistoricalSettles(c, o)
    /\ pending' = pending \ {c}
    /\ settled' = settled + 1
    /\ arrived' = IF o.ok
                     THEN [arrived EXCEPT ![c.kind] =
                             Append(@, [call |-> c, value |-> o.value])]
                     ELSE arrived
    /\ UNCHANGED <<mounted, controlVars, interval, timers, issued,
                   proxyVars, clientVars>>

\* the Dashboard leaves the page: the cleanups of its effects run
Unmount ==
  /\ mounted = "yes"
  /\ mounted' = "gone"
  /\ interval' = Null
  /\ timers' = IF interval = Null THEN timers
               ELSE ClearInterval(timers, interval)
  /\ UNCHANGED <<controlVars, orderbookVars, historyVars, pending, settled,
                 arrived, issued, proxyVars, clientVars>>

DashboardSteps ==
  \/ Mount
  \/ \E symbol \in DashboardSymbols : SelectSymbol(symbol)
  \/ \E market \in Markets : SelectMarketType(market)
  \/ \E days \in TimeRangeOptions : SelectTimeRange(days)
  \/ ToggleAutoRefresh
  \/ IntervalFires
  \/ RefreshOrderbook
  \/ RefreshData
  \/ Settle
  \/ Unmount

\* ------------------------------------------------------------------------
\* Specifications
\* ------------------------------------------------------------------------
ProxySteps ==
  \/ FetchWithRetrySettles
  \/ OrderbookFetchSettles
  \/ SingleFetchSettles
  \/ BackoffElapsed
  \/ FetchNeverSettles

DirectRequests ==
  \/ \E route \in Routes : \E q \in Queries(route) : HttpGet(route, q)
  \/ Deliver

ClientCalls ==
  \/ \E m \in Markets, s \in {"BTCUSDT", ""}, g \in ClientGranularities,
        r \in ClientRanges, l \in ClientLimits :
       GetHistoricalDataByMarket(m, s, g, r, l)
  \/ HistoricalDataReturns
  \/ \E m \in Markets, s \in {"BTCUSDT", ""}, l \in DepthLimits :
       GetOrderbookByMarket(m, s, l)
  \/ OrderbookReturns
  \/ \E m \in Markets : GetSymbolsByMarket(m)
  \/ \E m \in Markets : GetTickersByMarket(m)
  \/ ListReturns
  \/ \E s \in {"BTCUSDT"}, d \in Days, g \in ClientGranularities,
        now \in Clock :
       GetDataForAI(s, d, g, now)
  \/ \E m \in Markets, s \in {"BTCUSDT"}, d \in Days,
        g \in ClientGranularities, now \in Clock :
       GetDataForAIByMarket(m, s, d, g, now)
  \/ DataForAIFirstReturns
  \/ DataForAIFallbackReturns
  \/ AxiosNetworkError
  \/ ExportToCSV
  \/ \E now \in Clock : ExportToJSON(now)
  \/ Release

NextProxy == DirectRequests \/ ProxySteps

NextClient == ClientCalls \/ ProxySteps

Next == DirectRequests \/ ClientCalls \/ ProxySteps

NextDashboard == DashboardSteps

\* an HTTP client talks to the proxy
ProxySpec == Init /\ [][NextProxy]_vars

\* a caller uses the client service, which talks to the proxy
ClientSpec == Init /\ [][NextClient]_vars

Spec == Init /\ [][Next]_vars

\* the event loop runs every handler step that can run
FairProxySpec == Init /\ [][NextProxy]_vars /\ WF_vars(ProxySteps)

\* a user works the Dashboard, whose service calls settle in any order
DashboardSpec == Init /\ [][NextDashboard]_vars

\* ------------------------------------------------------------------------
\* Properties
\* ------------------------------------------------------------------------
\* a reply that is an upstream failure: the fetch threw, was aborted by the
\* timeout, or resolved with a non-2xx status
UpstreamFailure(reply) == reply.kind \in {"throw", "timeout", "non2xx"}

\* a canonical non-negative decimal integer
IsIntegerText(t) ==
  /\ t # <<>>
  /\ \A i \in DOMAIN t : IsDigit(t[i])
  /\ Len(t) > 1 => t[1] # "0"

TenMockSymbols ==
  <<"BTCUSDT", "ETHUSDT", "ADAUSDT", "DOTUSDT", "LINKUSDT", "SOLUSDT",
    "MATICUSDT", "AVAXUSDT", "ATOMUSDT", "NEARUSDT">>

AllCandidatesFailed ==
  /\ pc = "done"
  /\ request.route \in
       {SpotSymbols, FuturesSymbols, FuturesTickers, SpotOrderbook}
  /\ upstream # <<>>
  /\ \A i \in DOMAIN upstream : UpstreamFailure(upstream[i].reply)

\* C1: a handler with a mock tier whose every upstream call failed answers
\* 200 with the mock payload and the header X-Data-Source: mock, never a
\* 500; for spot symbols the data is the 10-row mock symbol list.
C1_MockWhenAllFail ==
  AllCandidatesFailed =>
    /\ response.status = 200
    /\ MockTag \in response.headers
    /\ response.source = "mock"
    /\ request.route = SpotSymbols =>
         /\ Len(response.json.data) = 10
         /\ \A i \in 1..10 :
              /\ response.json.data[i].symbol = TenMockSymbols[i]
              /\ response.json.data[i].quoteCoin = "USDT"
              /\ response.json.data[i].status = "online"

C1_Witness ==
  /\ AllCandidatesFailed
  /\ request.route = SpotSymbols
  /\ Len(upstream) = 6
  /\ response.source = "mock"

\* C2: a response carries X-Data-Source: mock exactly when its body was
\* built from the hard-coded mock payload.
C2_MockTagIffMockBody ==
  response.status # 0 =>
    ((MockTag \in response.headers) <=> (response.source = "mock"))

C2_Witness ==
  /\ pc = "done"
  /\ request.route = SpotOrderbook
  /\ response.source = "mock"
  /\ MockTag \in response.headers

Succeeded(reply) == reply.kind = "2xx" /\ reply.body # InvalidJson

\* C3: a handler that uses fetchWithRetry makes at most 3 attempts per
\* candidate and 6 upstream requests in all, tries the candidates in list
\* order, contacts the next one only after the previous one has failed and
\* sends nothing after a success.
C3_BoundedOrderedRetries ==
  request.route \in {SpotSymbols, FuturesSymbols, FuturesTickers} =>
    /\ Len(upstream) <= 6
    /\ \A k \in 1..2 :
         Cardinality({i \in DOMAIN upstream : upstream[i].endpoint = k}) <= 3
    /\ \A i \in DOMAIN upstream :
         upstream[i].url = Endpoints(request.route)[upstream[i].endpoint]
    /\ \A i, j \in DOMAIN upstream :
         i < j =>
           /\ upstream[i].endpoint <= upstream[j].endpoint
           /\ upstream[i].reply.kind # "pending"
           /\ ~Succeeded(upstream[i].reply)

C3_Witness ==
  /\ pc = "done"
  /\ request.route = FuturesTickers
  /\ Len(upstream) = 6
  /\ upstream[3].endpoint = 1
  /\ upstream[4].endpoint = 2

SymbolAbsentOrEmpty ==
  "symbol" \notin DOMAIN request.query \/ request.query["symbol"] = ""

\* C4: a request without a symbol (absent or empty) to a candles, single
\* ticker or order-book endpoint is answered 400 with the body
\* {error: "Symbol parameter is required"} and reaches no upstream.
C4_MissingSymbolIs400 ==
  (/\ request.route \in {SpotCandles, FuturesCandles, SpotTicker,
                         FuturesTicker, SpotOrderbook, FuturesOrderbook}
   /\ SymbolAbsentOrEmpty) =>
    /\ pc = "done"
    /\ upstream = <<>>
    /\ response.status = 400
    /\ response.json.shape = "error"
    /\ response.json.error = "Symbol parameter is required"

C4_Witness ==
  /\ pc = "done"
  /\ request.route = FuturesOrderbook
  /\ "symbol" \in DOMAIN request.query
  /\ request.query["symbol"] = ""
  /\ response.status = 400
  /\ upstream = <<>>

\* C5: a handler without a mock tier, given a symbol, answers 500 with an
\* {error} body when its upstream call fails.
C5_ErrorOnUpstreamFailure ==
  (/\ pc = "done"
   /\ request.route \in {SpotCandles, SpotTicker, FuturesCandles,
                         FuturesTicker, FuturesOrderbook}
   /\ upstream # <<>>
   /\ UpstreamFailure(upstream[Len(upstream)].reply)) =>
    /\ response.status = 500
    /\ response.json.shape = "error"
    /\ response.json.error # ""

C5_Witness ==
  /\ pc = "done"
  /\ request.route = FuturesCandles
  /\ upstream # <<>>
  /\ upstream[1].reply.kind = "timeout"
  /\ response.status = 500

AIReturned ==
  /\ call.op \in {"getDataForAI", "getDataForAIByMarket"}
  /\ call.stage = "returned"

Occurrences(seq, x) == Cardinality({i \in DOMAIN seq : seq[i] = x})

\* seq holds the parsed rows, each as often as it occurs among the rows
IsPermutationOfParsed(seq, rows) ==
  /\ Len(seq) = Len(rows)
  /\ \A i \in DOMAIN rows :
       Occurrences(seq, ParseCandle(rows[i])) =
         Cardinality({j \in DOMAIN rows : rows[j] = rows[i]})

\* C6: getDataForAI and getDataForAIByMarket: when the time-bounded query
\* returns no candle the fallback query is made; when the fallback returns a
\* non-empty series the call succeeds with that series and the summary
\* computed from it; when both return no candle the call fails with
\* "No data available for <symbol>".
C6_FallbackPolicy ==
  (AIReturned /\ answers[1].ok /\ answers[1].rows = <<>>) =>
    /\ Len(answers) = 2
    /\ Len(sent) = 2
    /\ "startTime" \notin DOMAIN sent[2].query
    /\ "endTime" \notin DOMAIN sent[2].query
    /\ (answers[2].ok /\ answers[2].rows # <<>>) =>
         /\ result.state = "ok"
         /\ IsPermutationOfParsed(result.value.data, answers[2].rows)
         /\ result.value.summary.startPrice = result.value.data[1].open
         /\ result.value.summary.endPrice =
              result.value.data[Len(result.value.data)].close
         /\ \A i \in DOMAIN result.value.data :
              /\ result.value.data[i].high
                   <= result.value.summary.highestPrice
              /\ result.value.summary.lowestPrice
                   <= result.value.data[i].low
    /\ (answers[2].ok /\ answers[2].rows = <<>>) =>
         /\ result.state = "error"
         /\ result.message = "No data available for " \o call.symbol

C6_Witness ==
  /\ AIReturned
  /\ call.op = "getDataForAIByMarket"
  /\ Len(answers) = 2
  /\ answers[1].ok /\ answers[1].rows = <<>>
  /\ answers[2].ok /\ Len(answers[2].rows) = 2
  /\ result.state = "ok"

ExpectedSeconds(t) == IF Len(t) > 10 THEN SubSeq(t, 1, Len(t) - 3) ELSE t

\* C7: in the spot and futures candle proxies an integer startTime or
\* endTime above 9,999,999,999 is sent upstream divided by 1000 (rounded
\* down), one of at most 9,999,999,999 is sent unchanged, and a parameter
\* the caller did not give is not sent.  Timestamps are non-negative
\* integers that JavaScript numbers hold exactly.
C7_TimestampHeuristic ==
  request.route \in {SpotCandles, FuturesCandles} =>
    \A i \in DOMAIN upstream : \A k \in {"startTime", "endTime"} :
      /\ k \notin DOMAIN request.query => k \notin DOMAIN upstream[i].params
      /\ (k \in DOMAIN request.query /\ IsIntegerText(request.query[k])) =>
           /\ k \in DOMAIN upstream[i].params
           /\ upstream[i].params[k] = ExpectedSeconds(request.query[k])

C7_Witness ==
  /\ request.route = FuturesCandles
  /\ upstream # <<>>
  /\ "startTime" \in DOMAIN request.query
  /\ request.query["startTime"] = TenNines
  /\ upstream[1].params["startTime"] = TenNines
  /\ "endTime" \in DOMAIN request.query
  /\ request.query["endTime"] = TenBillion
  /\ upstream[1].params["endTime"] = Str(10000000)

UpstreamMax(route) ==
  CASE route = SpotCandles      -> 1000
    [] route = FuturesCandles   -> 1000
    [] route = SpotOrderbook    -> 500
    [] route = FuturesOrderbook -> 100

Smaller(a, b) == IF a < b THEN a ELSE b

\* C8: the limit sent upstream is min(L, MAX) for every integer limit L a
\* caller gives, MAX being 1000 for candles, 500 for the spot order book and
\* 100 for the futures order book, for a request made to the proxy and for
\* one made through getHistoricalDataByMarket or getOrderbookByMarket.
C8_LimitClamped ==
  request.route \in
      {SpotCandles, FuturesCandles, SpotOrderbook, FuturesOrderbook} =>
    \A i \in DOMAIN upstream :
      /\ (/\ request.origin = "direct"
          /\ "limit" \in DOMAIN request.query
          /\ IsIntegerText(request.query["limit"])) =>
           upstream[i].params["limit"] =
             Str(Smaller(DigitsValue(request.query["limit"], 0),
                         UpstreamMax(request.route)))
      /\ (/\ request.origin = "client"
          /\ call.op \in {"getHistoricalDataByMarket",
                          "getOrderbookByMarket"}) =>
           upstream[i].params["limit"] =
             Str(Smaller(call.limit, UpstreamMax(request.route)))

C8_Witness ==
  /\ request.route = FuturesOrderbook
  /\ request.origin = "client"
  /\ call.op = "getOrderbookByMarket"
  /\ call.limit = 5000
  /\ upstream # <<>>
  /\ upstream[1].params["limit"] = Str(100)

SpotReference(token) == IF token = "1month" THEN "1M" ELSE token

FuturesReference(token) ==
  CASE token = "1min"   -> "1m"
    [] token = "5min"   -> "5m"
    [] token = "15min"  -> "15m"
    [] token = "1h"     -> "1H"
    [] token = "4h"     -> "4H"
    [] token = "1day"   -> "1D"
    [] token = "1week"  -> "1W"
    [] token = "1month" -> "1M"
    [] OTHER            -> "1D"

\* C9: the granularity a candle proxy sends upstream is the reference
\* mapping of the token it was given: spot keeps every token but 1month,
\* which becomes 1M, and keeps an unknown token unchanged; futures maps the
\* eight tokens to 1m 5m 15m 1H 4H 1D 1W 1M and an unknown token to 1D.
C9_MappersMatchReference ==
  \A i \in DOMAIN upstream :
    /\ (request.route = SpotCandles /\ "granularity" \in DOMAIN request.query
          /\ request.query["granularity"] # "")
         => upstream[i].params["granularity"] =
              SpotReference(request.query["granularity"])
    /\ (request.route = FuturesCandles
          /\ "granularity" \in DOMAIN request.query
          /\ request.query["granularity"] # "")
         => upstream[i].params["granularity"] =
              FuturesReference(request.query["granularity"])

HistoricalReturned ==
  /\ call.op = "getHistoricalDataByMarket"
  /\ call.stage = "returned"
  /\ result.state = "ok"

\* C10: the series getHistoricalData and getFuturesHistoricalData return has
\* the length of the list of rows the proxy returned, is a permutation of
\* the parsed rows and is in non-decreasing order of timestamp.
C10_SortedPermutation ==
  HistoricalReturned =>
    /\ IsPermutationOfParsed(result.value, answers[1].rows)
    /\ \A i, j \in DOMAIN result.value :
         i < j =>
           ~NumLess(result.value[j].timestamp, result.value[i].timestamp)

C10_Witness ==
  /\ HistoricalReturned
  /\ call.market = "futures"
  /\ Len(answers[1].rows) = 3
  /\ NumLess(answers[1].rows[3][1], answers[1].rows[2][1])
  /\ NumLess(answers[1].rows[2][1], answers[1].rows[1][1])
  /\ NumLess(result.value[1].timestamp, result.value[3].timestamp)

AISucceeded == AIReturned /\ result.state = "ok"

RECURSIVE VolumeUpTo(_, _)
VolumeUpTo(data, n) ==
  IF n = 0 THEN 0 ELSE VolumeUpTo(data, n - 1) + data[n].volume

Abs(x) == IF x < 0 THEN -x ELSE x

RECURSIVE Gcd(_, _)
Gcd(a, b) == IF b = 0 THEN a ELSE Gcd(b, a % b)

\* the fraction a / b, b # 0, in lowest terms with a positive denominator
LowestTerms(a, b) ==
  LET g    == Gcd(Abs(a), Abs(b))
      sign == IF b < 0 THEN -1 ELSE 1
  IN  <<sign * (a \div g), sign * (b \div g)>>

\* C11: the summary getDataForAI returns with a non-empty series has the
\* open of the earliest candle as startPrice, the close of the latest as
\* endPrice, the least low and the greatest high of the series, the sum of
\* the volumes, priceChange = endPrice - startPrice and
\* priceChangePercent = priceChange / startPrice * 100.
C11_SummaryOfSeries ==
  AISucceeded =>
    LET data == result.value.data
        s    == result.value.summary
        n    == Len(result.value.data)
    IN  /\ n > 0
        /\ \A i \in 1..n :
             /\ ~NumLess(data[i].timestamp, data[1].timestamp)
             /\ ~NumLess(data[n].timestamp, data[i].timestamp)
             /\ s.lowestPrice <= data[i].low
             /\ data[i].high <= s.highestPrice
        /\ s.startPrice = data[1].open
        /\ s.endPrice = data[n].close
        /\ \E i \in 1..n : s.lowestPrice = data[i].low
        /\ \E i \in 1..n : s.highestPrice = data[i].high
        /\ s.totalVolume = VolumeUpTo(data, n)
        /\ s.priceChange = s.endPrice - s.startPrice
        /\ s.priceChangePercent.den # 0
        /\ LowestTerms(s.priceChangePercent.num, s.priceChangePercent.den)
             = LowestTerms(100 * (s.endPrice - s.startPrice), s.startPrice)

C11_Witness ==
  /\ AISucceeded
  /\ call.op = "getDataForAI"
  /\ Len(result.value.data) = 3
  /\ result.value.summary.priceChange < 0
  /\ result.value.summary.lowestPrice < result.value.data[1].low

\* C12: every upstream call of every proxy handler has an abort timeout of
\* 10 to 15 seconds, and a handler that has begun a fetch eventually returns
\* a response, also when the upstream never answers.
C12_EveryHandlerReturns ==
  /\ [](\A i \in DOMAIN upstream : upstream[i].timeout \in 10000..15000)
  /\ (pc = "fetch") ~> (pc = "done")

SymbolFields(route) ==
  IF route = FuturesSymbols
    THEN {"symbol", "baseCoin", "quoteCoin", "status", "contractType",
          "minTradeNum", "priceEndStep", "volumePlace", "pricePlace"}
    ELSE {"symbol", "baseCoin", "quoteCoin", "status"}

\* C13: a response the spot or futures symbols handler builds from an
\* upstream answer is an envelope {code, msg, data} whose data is a list of
\* items that all carry the field names of the route, whichever candidate
\* endpoint answered with a list of symbols.  (The data of an envelope built by wrapping a v1
\* answer is that answer, which carries its own shape.)
C13_SameSchemaWhicheverAnswered ==
  (/\ pc = "done"
   /\ request.route \in {SpotSymbols, FuturesSymbols}
   /\ response.source = "upstream"
   /\ upstream[Len(upstream)].reply.body # ErrorEnvelope) =>
    /\ response.json.shape = "envelope"
    /\ "data" \in DOMAIN response.json
    /\ IF IncludesV1(upstream[Len(upstream)].url)
         THEN /\ response.json.data.shape = "list"
              /\ \A i \in DOMAIN response.json.data.items :
                   DOMAIN response.json.data.items[i]
                     = SymbolFields(request.route)
         ELSE \A i \in DOMAIN response.json.data :
                DOMAIN response.json.data[i] = SymbolFields(request.route)

\* the delays of k seconds after the k-th attempt of a candidate has thrown
\* or was aborted, for the k in ks, in the order of the attempts
RECURSIVE DelaysAfter(_, _)
DelaysAfter(log, ks) ==
  IF log = <<>> THEN <<>>
  ELSE LET last == log[Len(log)]
           rest == DelaysAfter(SubSeq(log, 1, Len(log) - 1), ks)
       IN  IF last.reply.kind \in {"throw", "timeout"}
              /\ (last.attempt + 1) \in ks
             THEN Append(rest, 1000 * (last.attempt + 1))
             ELSE rest

\* C14 as stated: fetchWithRetry waits k seconds after the k-th failed
\* attempt of a candidate, for k = 1, 2 and 3.
C14_WaitsAfterEveryAttempt ==
  request.route \in {SpotSymbols, FuturesSymbols, FuturesTickers} =>
    waits = DelaysAfter(upstream, {1, 2, 3})

\* C14 amended: fetchWithRetry waits 1 second after the first and 2 seconds
\* after the second failed attempt of a candidate; after the third failed
\* attempt it does not wait.
C14_WaitsBetweenAttempts ==
  request.route \in {SpotSymbols, FuturesSymbols, FuturesTickers} =>
    waits = DelaysAfter(upstream, {1, 2})

C14_Witness ==
  /\ request.route = SpotSymbols
  /\ pc = "done"
  /\ Len(upstream) = 6
  /\ waits = <<1000, 2000, 1000, 2000>>

PointsPerDay ==
  ("1min" :> 1440) @@ ("5min" :> 288) @@ ("15min" :> 96) @@ ("1h" :> 24) @@
  ("4h" :> 6) @@ ("1day" :> 1)

\* the least n with n * d >= a
CeilDiv(a, d) == CHOOSE n \in 0..a : n * d >= a /\ (n - 1) * d < a

ReferenceLimit(days, granularity) ==
  Smaller(IF granularity \in DOMAIN PointsPerDay
            THEN days * PointsPerDay[granularity]
          ELSE IF granularity = "1week" THEN CeilDiv(days, 7)
          ELSE IF granularity = "1month" THEN CeilDiv(days, 30)
          ELSE days,
          1000)

AICalled == call.op \in {"getDataForAI", "getDataForAIByMarket"}

\* C15: the limit getDataForAI and getDataForAIByMarket request for the
\* time-bounded query is min(days * pointsPerDay, 1000), with
\* min(ceil(days / 7), 1000) for 1week, min(ceil(days / 30), 1000) for
\* 1month and min(days, 1000) for any other token; it is between 1 and 1000.
C15_LimitEstimate ==
  AICalled =>
    /\ sent # <<>>
    /\ sent[1].query["limit"]
         = Str(ReferenceLimit(call.days, call.granularity))
    /\ ReferenceLimit(call.days, call.granularity) \in 1..1000

C15_Witness ==
  /\ AICalled
  /\ call.days = 30
  /\ call.granularity = "1week"
  /\ sent # <<>>
  /\ sent[1].query["limit"] = Str(5)

SpotHistoricalReturned ==
  /\ call.op = "getHistoricalDataByMarket"
  /\ call.market = "spot"
  /\ call.stage = "returned"

\* C16: getHistoricalData fails with "Failed to fetch historical data for
\* <symbol>" when its call to the proxy fails with a network error or a
\* non-2xx status, and then returns no series.
C16_HistoricalFailureNamesSymbol ==
  (SpotHistoricalReturned /\ answers[1].status \notin 200..299) =>
    /\ result.state = "error"
    /\ "value" \notin DOMAIN result
    /\ result.message = "Failed to fetch historical data for " \o call.symbol

C16_Witness ==
  /\ SpotHistoricalReturned
  /\ answers[1].status = 500
  /\ call.symbol = "BTCUSDT"
  /\ result.state = "error"

\* the grammar of a JSON number without exponent: -?(0|[1-9][0-9]*)(\.[0-9]+)?
IsJsonNumber(t) ==
  LET u    == IF t # <<>> /\ Head(t) = "-" THEN Tail(t) ELSE t
      ip   == DigitPrefix(u)
      rest == SubSeq(u, Len(ip) + 1, Len(u))
  IN  /\ ip # <<>>
      /\ ip = StripZeros(ip)
      /\ \/ rest = <<>>
         \/ /\ Len(rest) >= 2
            /\ Head(rest) = "."
            /\ DigitPrefix(Tail(rest)) = Tail(rest)

\* JSON.parse of a number member; NaN when the member is no valid number
ParsedNumber(member) ==
  IF member.literal = "number" /\ IsJsonNumber(member.text)
    THEN parseFloat(member.text) ELSE NaN

\* yyyy-mm-dd
IsCalendarDay(t) ==
  /\ Len(t) = 10
  /\ \A i \in 1..10 : IF i \in {5, 8} THEN t[i] = "-" ELSE IsDigit(t[i])

\* C17: the document exportToJSON writes is valid JSON and, read back, has
\* the symbol given and a data array as long as the series and in its order,
\* whose every element has a date and reproduces the timestamp, open, high,
\* low, close, volume and quoteVolume of its candle exactly.
C17_JsonRoundTrip ==
  download.format = "json" =>
    LET doc == download.document
        series == download.series
    IN  /\ doc.symbol.literal = "string"
        /\ doc.symbol.text = download.symbol
        /\ Len(doc.data) = Len(series)
        /\ \A i \in 1..Len(series) :
             /\ DOMAIN doc.data[i] = {"date", "timestamp", "open", "high",
                                      "low", "close", "volume",
                                      "quoteVolume"}
             /\ doc.data[i].date.literal = "string"
             /\ doc.data[i].timestamp.literal = "number"
             /\ IsJsonNumber(doc.data[i].timestamp.text)
             /\ parseInt(doc.data[i].timestamp.text) = series[i].timestamp
             /\ ParsedNumber(doc.data[i].open) = series[i].open
             /\ ParsedNumber(doc.data[i].high) = series[i].high
             /\ ParsedNumber(doc.data[i].low) = series[i].low
             /\ ParsedNumber(doc.data[i].close) = series[i].close
             /\ ParsedNumber(doc.data[i].volume) = series[i].volume
             /\ ParsedNumber(doc.data[i].quoteVolume) = series[i].quoteVolume

\* a series of two candles or more, one of them with a price of two fraction
\* digits, was exported as JSON
C17_Witness ==
  /\ download.format = "json"
  /\ Len(download.series) >= 2
  /\ \E i \in 1..Len(download.series) : download.series[i].low % 10 # 0
  /\ download.series[1].timestamp # download.series[2].timestamp

CsvHeaderLine ==
  <<"D", "a", "t", "e", ",", "O", "p", "e", "n", ",", "H", "i", "g",
    "h", ",", "L", "o", "w", ",", "C", "l", "o", "s", "e", ",", "V",
    "o", "l", "u", "m", "e", ",", "Q", "u", "o", "t", "e", " ", "V",
    "o", "l", "u", "m", "e">>

\* C18: the text exportToCSV writes for a series of n candles has n + 1
\* lines separated by newlines: the header Date,Open,High,Low,Close,Volume,
\* Quote Volume, then one line per candle in the order of the series, each
\* of seven fields separated by commas, the first a calendar day and the
\* second to seventh reading back as open, high, low, close, volume and
\* quoteVolume of the candle.
C18_CsvRoundTrip ==
  download.format = "csv" =>
    LET lines == Split(download.text, "\n")
        series == download.series
    IN  /\ Len(lines) = Len(series) + 1
        /\ lines[1] = CsvHeaderLine
        /\ \A i \in 1..Len(series) :
             LET fields == Split(lines[i + 1], ",")
             IN  /\ Len(fields) = 7
                 /\ IsCalendarDay(fields[1])
                 /\ parseFloat(fields[2]) = series[i].open
                 /\ parseFloat(fields[3]) = series[i].high
                 /\ parseFloat(fields[4]) = series[i].low
                 /\ parseFloat(fields[5]) = series[i].close
                 /\ parseFloat(fields[6]) = series[i].volume
                 /\ parseFloat(fields[7]) = series[i].quoteVolume

\* a series of two candles or more, one of them with a price of two fraction
\* digits, was exported as CSV
C18_Witness ==
  /\ download.format = "csv"
  /\ Len(download.series) >= 2
  /\ \E i \in 1..Len(download.series) : download.series[i].close % 10 # 0

\* a candle call of the client service is under way
CandleCall ==
  /\ call # NoCall
  /\ call.op \in {"getHistoricalDataByMarket", "getDataForAI",
                  "getDataForAIByMarket"}

\* C19: a futures candle request made through the client service with one
\* of the tokens 1min 5min 15min 1h 4h 1day 1week 1month reaches the
\* upstream with the futures token of that token: 1m 5m 15m 1H 4H 1D 1W 1M.
C19_FuturesGranularityEndToEnd ==
  (CandleCall /\ call.market = "futures"
     /\ call.granularity \in GranularityTokens) =>
    \A i \in DOMAIN upstream :
      upstream[i].params["granularity"] = FuturesReference(call.granularity)

AIOps == {"getDataForAI", "getDataForAIByMarket"}

\* C20: one call of getDataForAI / getDataForAIByMarket sends one or two
\* candle requests.  The first has endTime = now and startTime = now less
\* days times 24 hours, in milliseconds.  A second is sent only after the
\* first returned no candle, and it has no startTime, no endTime and the
\* limit min(limit, 200).  When the first request throws there is no second
\* one and the caller gets that error.
C20_AtMostTwoRequests ==
  (call # NoCall /\ call.op \in AIOps) =>
    /\ Len(sent) \in 1..2
    /\ \A i \in DOMAIN sent : sent[i].route = CandlesRoute(call.market)
    /\ {"startTime", "endTime"} \subseteq DOMAIN sent[1].query
    /\ sent[1].query["endTime"] = call.now
    /\ LET from == DivMod(sent[1].query["startTime"], 86400000, 0, 0)
           to   == DivMod(call.now, 86400000, 0, 0)
       IN  to.quot - from.quot = call.days /\ to.rem = from.rem
    /\ Len(sent) = 2 =>
         /\ answers # <<>>
         /\ answers[1].ok
         /\ answers[1].rows = <<>>
         /\ "startTime" \notin DOMAIN sent[2].query
         /\ "endTime" \notin DOMAIN sent[2].query
         /\ sent[2].query["limit"] =
              Str(IF call.limit < 200 THEN call.limit ELSE 200)
    /\ (answers # <<>> /\ answers[1].ok /\ answers[1].rows = <<>>) =>
         Len(sent) = 2
    /\ (answers # <<>> /\ ~answers[1].ok) =>
         /\ Len(sent) = 1
         /\ call.stage = "returned"
         /\ result.state = "error"
         /\ result.message =
              (IF call.market = "futures"
                 THEN "Failed to fetch futures historical data for "
                 ELSE "Failed to fetch historical data for ") \o call.symbol

\* the time-bounded request found nothing and the request without bounds,
\* with a limit cut to 200, was sent and failed
C20_Witness ==
  /\ call # NoCall
  /\ call.op \in AIOps
  /\ call.stage = "returned"
  /\ Len(sent) = 2
  /\ call.limit > 200
  /\ Len(answers) = 2
  /\ ~answers[2].ok
  /\ result.state = "error"

\* C28: every successful getDataForAI and getDataForAIByMarket call returns
\* summary.totalDays equal to the days asked for, whatever the number of
\* candles and whichever of the two queries supplied them.
C28_TotalDaysIsWindow ==
  AISucceeded => result.value.summary.totalDays = call.days

\* a call for 30 days succeeded with two candles from the fallback query
C28_Witness ==
  /\ AISucceeded
  /\ call.days = 30
  /\ Len(result.value.data) = 2
  /\ Len(sent) = 2

\* the entries of the upstream log for the same candidate endpoint as i
\* that were fetched after entry i
LaterTries(i) ==
  {j \in DOMAIN upstream :
     j > i /\ upstream[j].endpoint = upstream[i].endpoint}

\* C27: on the routes that use fetchWithRetry, a fetch is repeated on the
\* same URL only after the fetch before it threw or was aborted, one
\* backoff wait per repeat; an answer with a non-2xx status ends the
\* attempts on its URL, with no wait, and the next thing fetched, if
\* anything, is the next candidate.
C27_RetryOnlyWhenFetchThrows ==
  request.route \in RetryRoutes =>
    /\ \A i \in DOMAIN upstream :
         /\ upstream[i].attempt > 0 =>
              /\ i > 1
              /\ upstream[i - 1].endpoint = upstream[i].endpoint
              /\ upstream[i - 1].reply.kind \in {"throw", "timeout"}
         /\ upstream[i].reply.kind = "non2xx" =>
              /\ LaterTries(i) = {}
              /\ i < Len(upstream) =>
                   /\ upstream[i + 1].endpoint = upstream[i].endpoint + 1
                   /\ upstream[i + 1].attempt = 0
    /\ Len(waits) =
         Cardinality({i \in DOMAIN upstream : upstream[i].attempt > 0})
           + (IF pc = "backoff" THEN 1 ELSE 0)

\* the first candidate answered with a non-2xx status at its first attempt
\* and the second candidate is being fetched, with no wait so far
C27_Witness ==
  /\ request.route \in RetryRoutes
  /\ Len(upstream) = 2
  /\ upstream[1].reply.kind = "non2xx"
  /\ upstream[1].attempt = 0
  /\ upstream[2].endpoint = 2
  /\ waits = <<>>

SpotOrderbookAnswered ==
  /\ request.route = SpotOrderbook
  /\ pc = "done"
  /\ request.origin = "direct"

HasCode00000(json) == "code" \in DOMAIN json /\ json.code = "00000"

\* C26: every response of the spot order-book proxy that is not tagged as
\* mock has the code 00000 in its body.
C26_UntaggedHasCode00000 ==
  (SpotOrderbookAnswered /\ MockTag \notin response.headers) =>
    HasCode00000(response.json)

\* C26 amended: a response of the spot order-book proxy that is not tagged
\* as mock is either the 400 answer to a request without symbol, whose body
\* is {error} and has no code, or a 200 answer whose body is the body of the
\* last candidate fetched and has the code 00000; a 2xx upstream answer
\* with another code is never the body of the response, and after it the
\* next candidate is fetched or the mock payload is returned.
C26_UntaggedIs400OrCode00000 ==
  SpotOrderbookAnswered =>
    /\ MockTag \notin response.headers =>
         \/ /\ response.status = 400
            /\ SymbolAbsentOrEmpty
            /\ upstream = <<>>
            /\ "code" \notin DOMAIN response.json
         \/ /\ response.status = 200
            /\ upstream # <<>>
            /\ upstream[Len(upstream)].reply.kind = "2xx"
            /\ response.json = upstream[Len(upstream)].reply.body
            /\ HasCode00000(response.json)
    /\ \A i \in DOMAIN upstream :
         (/\ upstream[i].reply.kind = "2xx"
          /\ ~HasCode00000(upstream[i].reply.body)) =>
           /\ response.json # upstream[i].reply.body
           /\ IF i < Len(upstream)
                THEN upstream[i + 1].endpoint = upstream[i].endpoint + 1
                ELSE /\ MockTag \in response.headers
                     /\ response.json = MockPayload(SpotOrderbook)

\* the first candidate answered 200 with an error code and the answer of
\* the second was forwarded
C26_Witness ==
  /\ SpotOrderbookAnswered
  /\ Len(upstream) = 2
  /\ upstream[1].reply.kind = "2xx"
  /\ upstream[1].reply.body = ErrorEnvelope
  /\ response.status = 200
  /\ MockTag \notin response.headers

\* what getOrderbook returns for the live answers of the spot order-book
\* proxy: response.data.data of every upstream body it forwards
LiveOrderbookValues ==
  {<<b.data>> :
     b \in {x \in UNION {UpstreamBodies(SpotOrderbook, i) :
                           i \in DOMAIN Endpoints(SpotOrderbook)} :
              HasCode00000(x)}}

\* C25: the value getOrderbook / getOrderbookByMarket returns for a proxy
\* response tagged as mock is none of the values it returns for a live
\* response.
C25_MockStaysMarked ==
  [][(/\ pc = "done"
      /\ request.origin = "client"
      /\ request.route = SpotOrderbook
      /\ MockTag \in response.headers
      /\ result = NoResult
      /\ result'.state = "ok")
       => result'.value \notin LiveOrderbookValues]_vars

OrderbookCalls == {c \in pending : c.kind = "orderbook"}

HistoricalCalls == {c \in pending : c.kind = "historical"}

\* the successful answer of a kind that arrived last, Null before the first
LastArrived(kind) ==
  IF arrived[kind] = <<>> THEN [call |-> Null, value |-> Null]
  ELSE arrived[kind][Len(arrived[kind])]

\* C21: once no order-book request is in flight, the order book the
\* Dashboard holds is the answer to a request made for the symbol and the
\* market type that are selected now.
C21_OrderbookIsOfSelection ==
  (mounted = "yes" /\ OrderbookCalls = {} /\ orderbook # Null) =>
    \E i \in DOMAIN arrived.orderbook :
      /\ orderbook = arrived.orderbook[i].value
      /\ arrived.orderbook[i].call.symbol = selectedSymbol
      /\ arrived.orderbook[i].call.market = marketType

\* C22: no call of loadOrderbook cancels another: every call made is in
\* flight or has completed.  The order book held is, whole and unmerged,
\* the payload of the successful answer that arrived last, and nothing
\* before the first one.
C22_LastArrivalWins ==
  /\ issued = Cardinality(pending) + settled
  /\ mounted = "yes" => orderbook = LastArrived("orderbook").value

\* two order-book calls overlapped, the one issued second was answered
\* first and the one issued first last
C22_Witness ==
  /\ mounted = "yes"
  /\ OrderbookCalls = {}
  /\ Len(arrived.orderbook) = 2
  /\ arrived.orderbook[1].call.id > arrived.orderbook[2].call.id
  /\ orderbook = arrived.orderbook[2].value

\* C23: at most one refresh interval is set at any time, of 30 seconds and
\* held by the auto-refresh effect for the symbol and market type selected;
\* one is set only while the Dashboard is mounted, a symbol is selected and
\* auto-refresh is on; and a call of loadOrderbook made by an interval is
\* made only while the Dashboard is mounted with auto-refresh on, for the
\* symbol and market type selected.
C23_OneTimerWhileAutoRefresh ==
  /\ [](/\ Cardinality(timers) <= 1
        /\ \A t \in timers :
             /\ mounted = "yes"
             /\ autoRefreshOrderbook
             /\ selectedSymbol # ""
             /\ t = interval
             /\ t.every = 30000
             /\ t.symbol = selectedSymbol
             /\ t.market = marketType)
  /\ [][\A c \in pending' \ pending :
          c.by = "timer" =>
            /\ mounted = "yes"
            /\ autoRefreshOrderbook
            /\ c.symbol = selectedSymbol
            /\ c.market = marketType]_vars

\* an interval fired, and then auto-refresh was switched off: the interval
\* is cleared while the call it made is still in flight
C23_Witness ==
  /\ mounted = "yes"
  /\ ~autoRefreshOrderbook
  /\ timers = {}
  /\ interval = Null
  /\ \E c \in pending : c.by = "timer"

\* the call that settles in this step failed
FailedNow(c) ==
  /\ c \in pending
  /\ c \notin pending'
  /\ arrived' = arrived
  /\ mounted = "yes"

\* C24: a failed loadHistoricalData leaves historicalData, summary and
\* chartData as they were and sets error to "Failed to load data for " and
\* the symbol selected; a failed loadOrderbook leaves orderbook as it was
\* and sets orderbookError to "Failed to load orderbook for " and the
\* symbol selected.
C24_FailureNamesSelection ==
  [][\A c \in pending :
       FailedNow(c) =>
         IF c.kind = "historical"
           THEN /\ UNCHANGED <<historicalData, summary, chartData>>
                /\ error' = "Failed to load data for " \o selectedSymbol
           ELSE /\ UNCHANGED orderbook
                /\ orderbookError' =
                     "Failed to load orderbook for " \o selectedSymbol]_vars

\* C24 amended: a failed loadHistoricalData leaves historicalData, summary
\* and chartData as they were and sets error to "Failed to load data for "
\* and the symbol the call was made for, which need not be the one selected
\* when it fails; a failed loadOrderbook leaves orderbook as it was and
\* sets orderbookError to "Failed to load orderbook for " and the symbol
\* the call was made for.  At all times the three hold what the last
\* successful load returned.
C24_FailureKeepsData ==
  /\ [](mounted = "yes" =>
          /\ historicalData =
               (IF arrived.historical = <<>> THEN <<>>
                ELSE LastArrived("historical").value.data)
          /\ summary =
               (IF arrived.historical = <<>> THEN Null
                ELSE LastArrived("historical").value.summary)
          /\ Len(chartData) = Len(historicalData)
          /\ \A i \in DOMAIN chartData :
               chartData[i].close = historicalData[i].close)
  /\ [][\A c \in pending :
          FailedNow(c) =>
            IF c.kind = "historical"
              THEN /\ UNCHANGED <<historicalData, summary, chartData>>
                   /\ error' = "Failed to load data for " \o c.symbol
              ELSE /\ UNCHANGED orderbook
                   /\ orderbookError' =
                        "Failed to load orderbook for " \o c.symbol]_vars

\* with ETHUSDT selected, a load of the series made for BTCUSDT failed
\* after one had succeeded, and so did a load of the order book: both
\* errors are shown over the data held
C24_Witness ==
  /\ mounted = "yes"
  /\ selectedSymbol = "ETHUSDT"
  /\ error = "Failed to load data for BTCUSDT"
  /\ historicalData # <<>>
  /\ summary # Null
  /\ orderbookError = "Failed to load orderbook for BTCUSDT"
  /\ orderbook # Null

\* C29: summary and historicalData are of one getDataForAIByMarket result:
\* both have their initial values, null and the empty series, or there is a
\* successful answer whose series is the one held and whose summary is the
\* one held.
C29_SummaryOfSeriesHeld ==
  \/ historicalData = <<>> /\ summary = Null
  \/ \E i \in DOMAIN arrived.historical :
       /\ historicalData = arrived.historical[i].value.data
       /\ summary = arrived.historical[i].value.summary

\* two loads of the series overlapped and were answered in the reverse
\* order, with different series
C29_Witness ==
  /\ mounted = "yes"
  /\ Len(arrived.historical) = 2
  /\ arrived.historical[1].call.id > arrived.historical[2].call.id
  /\ arrived.historical[1].value.data # arrived.historical[2].value.data
  /\ summary = arrived.historical[2].value.summary

\* C30: while the Dashboard is mounted, loading is false whenever no
\* loadHistoricalData call is in flight and orderbookLoading is false
\* whenever no loadOrderbook call is in flight.
C30_SpinnersStop ==
  mounted = "yes" =>
    /\ HistoricalCalls = {} => ~loading
    /\ OrderbookCalls = {} => ~orderbookLoading

\* overlapping calls of both kinds have all completed, the last of each
\* kind with a failure
C30_Witness ==
  /\ mounted = "yes"
  /\ pending = {}
  /\ settled >= 4
  /\ error # ""
  /\ orderbookError # ""
  /\ ~loading
  /\ ~orderbookLoading

====
